---------------------------- MODULE Spec2Model ----------------------------
(***************************************************************************)
(* QtNetworkCrumbs: the mDNS resolver (src/mdns/mdnsresolver.cpp), the     *)
(* multicast resolver runtime (src/core/abstractresolver.cpp,              *)
(* src/core/multicastresolver.cpp), the SSDP resolver                      *)
(* (src/ssdp/ssdpresolver.cpp) and the UPnP descriptor pipeline            *)
(* (src/upnp/upnpresolver.cpp) as state machines.                          *)
(*                                                                         *)
(* Representation.  A QString or QByteArray holding a host name is a       *)
(* sequence of tokens: the token "." is the dot character and every other  *)
(* token is a non-empty run of dot-free characters, so "beta.local." is    *)
(* <<"beta", ".", "local", ".">>.  The questions section of an mDNS        *)
(* message is the sequence of its questions, each a label list and a       *)
(* record type; the length-prefixed wire form of a label list is           *)
(* injective, so two messages are byte-equal exactly when these sequences  *)
(* are equal.  An SSDP payload is its CRLF line structure.                 *)
(*                                                                         *)
(* One resolver object is modelled; resolverClass is its class.  Every     *)
(* handler is one action.  received, decoded, emitted and sent describe    *)
(* the handler that ran last: the datagrams it drained, those it handed to *)
(* the protocol decoder, the signals it emitted and the datagrams it wrote.*)
(***************************************************************************)
EXTENDS Integers, Sequences, FiniteSets, TLC

VARIABLES
    resolverClass,          \* "mdns" | "ssdp" | "upnp"
    m_domain,               \* MDNS::Resolver::m_domain
    m_queries,              \* MDNS::Resolver / MulticastResolver::m_queries
    m_hostNameQueries,      \* MDNS::Resolver::m_hostNameQueries
    m_serviceQueries,       \* MDNS::Resolver::m_serviceQueries
    m_ownAddresses,         \* MDNS::Resolver::m_ownAddresses
    m_sockets,              \* MDNS::Resolver / AbstractResolver::m_sockets
    submitted,              \* history: <<kind, qualified name>> given to a lookup so far
    call,                   \* the API call that ran last and what it returned
    received,               \* datagrams drained by the last read handler
    decoded,                \* indices of received handed to the protocol decoder
    emitted,                \* signals emitted by the last handler, in order
    sent,                   \* datagrams written by the last handler, in order
    m_networkAccessManager, \* upnp::Resolver::m_networkAccessManager
    m_behaviors,            \* upnp::Resolver::m_behaviors
    m_pendingReplies,       \* upnp::Resolver::m_pendingReplies
    replies,                \* the QNetworkReply objects created so far
    loaders,                \* the DetailLoader objects created so far
    destroyed               \* upnp::Resolver::~Resolver has run

vars == <<resolverClass, m_domain, m_queries, m_hostNameQueries, m_serviceQueries,
          m_ownAddresses, m_sockets, submitted, call, received, decoded, emitted,
          sent, m_networkAccessManager, m_behaviors, m_pendingReplies, replies,
          loaders, destroyed>>

upnpVars == <<m_networkAccessManager, m_behaviors, m_pendingReplies, replies,
              loaders, destroyed>>

---------------------------------------------------------------------------
(* Bounds of the model.                                                    *)

MaxNames == 2          \* names per lookupHostNames / lookupServices call
MaxQuestions == 2      \* questions per raw lookup message
MaxQueries == 2        \* stored queries of the mDNS resolver
MaxBatch == 2          \* datagrams pending on a socket when it becomes readable
MaxReplies == 3        \* QNetworkReply objects created by the UPnP resolver
MaxLoaders == 2        \* DetailLoader objects created by the UPnP resolver
MaxAddresses == 1      \* addresses a scan of the mDNS resolver reads

---------------------------------------------------------------------------
(* Sequences and strings.                                                  *)

Range(s) == {s[i] : i \in 1..Len(s)}

Contains(list, x) == \E i \in 1..Len(list) : list[i] = x

SeqsUpTo(S, n) == UNION {[1..k -> S] : k \in 0..n}

NonEmptySeqsUpTo(S, n) == UNION {[1..k -> S] : k \in 1..n}

\* a list to which every element is appended
AllOccurrences(s) == s

\* the distinct elements of a sequence in order of first occurrence
FirstOccurrences(s) ==
    LET F[i \in 0..Len(s)] ==
            IF i = 0 THEN <<>>
            ELSE IF Contains(F[i - 1], s[i]) THEN F[i - 1] ELSE Append(F[i - 1], s[i])
    IN F[Len(s)]

Dot == "."

EndsWith(s, suffix) ==
    /\ Len(s) >= Len(suffix)
    /\ SubSeq(s, Len(s) - Len(suffix) + 1, Len(s)) = suffix

Truncate(s, n) == SubSeq(s, 1, n)

RECURSIVE Split(_)
\* QByteArray::split('.'): the runs between the dots, empty runs included
Split(s) ==
    IF \A i \in 1..Len(s) : s[i] # Dot THEN <<s>>
    ELSE LET i == CHOOSE k \in 1..Len(s) :
                      s[k] = Dot /\ \A j \in 1..(k - 1) : s[j] # Dot
         IN <<SubSeq(s, 1, i - 1)>> \o Split(SubSeq(s, i + 1, Len(s)))

RECURSIVE Join(_)
\* the labels of a name, with a dot between two labels
Join(labels) ==
    IF labels = <<>> THEN <<>>
    ELSE IF Len(labels) = 1 THEN labels[1]
    ELSE labels[1] \o <<Dot>> \o Join(Tail(labels))

---------------------------------------------------------------------------
(* MDNS: names, questions, messages.                                       *)

A == 1
PTR == 12
AAAA == 28
SRV == 33
TXT == 16
s_mdnsPort == 5353

\* toLatin1 / fromLatin1 of a token: a character outside Latin-1 becomes '?'
NonLatin1 == {"OMEGA"}
ToLatin1(token) == IF token \in NonLatin1 THEN "?" ELSE token

\* qualification that appends the domain to a name that ended with a dot, too
strippedAndQualified(name, domain) ==
    LET stripped == IF EndsWith(name, <<Dot>>) THEN Truncate(name, Len(name) - 1)
                    ELSE name
    IN IF EndsWith(stripped, <<Dot>> \o domain) THEN stripped
       ELSE stripped \o <<Dot>> \o domain

qualifiedHostName(name, domain) ==
    IF EndsWith(name, <<Dot>>) THEN Truncate(name, Len(name) - 1)
    ELSE LET domainSuffix == <<Dot>> \o domain
         IN IF ~EndsWith(name, domainSuffix) THEN name \o domainSuffix ELSE name

normalizedHostName(name, domain) ==
    LET n1 == IF EndsWith(name, <<Dot>>) THEN Truncate(name, Len(name) - 1) ELSE name
    IN IF EndsWith(n1, <<Dot>> \o domain)
       THEN Truncate(n1, Len(n1) - Len(domain) - 1)
       ELSE n1

encodedHostName(hostName) == [i \in 1..Len(hostName) |-> ToLatin1(hostName[i])]

decodedHostName(hostName) == hostName

\* Name{name.split('.')}: the label list the wire form carries
NameOf(encodedName) == Split(encodedName)

\* Name::toByteArray
NameToByteArray(labels) == Join(labels)

\* Name::endsWith
NameEndsWith(labels, suffix) == EndsWith(labels, suffix)

\* Question{name, type}
Question(encodedName, type) == [name |-> NameOf(encodedName), type |-> type]

\* a message that holds questions only
EmptyMessage == [questions |-> <<>>, responses |-> <<>>]

addQuestion(message, question) ==
    [message EXCEPT !.questions = Append(@, question)]

questionCount(message) == Len(message.questions)

isAddressRecord(record) == record.type = A \/ record.type = AAAA

isServiceQuery(question) ==
    question.type = PTR /\ ~NameEndsWith(question.name, <<<<"arpa">>>>)

\* a name the precondition of makeLabelList accepts: no empty label
WellFormed(labels) == \A i \in 1..Len(labels) : labels[i] # <<>>

---------------------------------------------------------------------------
(* Signals.                                                                *)

\* args is the pair of the signal's name and its argument, so that the
\* arguments of different signals are never compared with each other
Signal(name, args) == [signal |-> name, args |-> <<name, args>>]

\* the argument a signal was emitted with
Argument(e) == e.args[2]

\* the signals named name among a handler's emissions
SignalsNamed(log, name) == SelectSeq(log, LAMBDA e : e.signal = name)

NoCall == [op |-> "none"]

---------------------------------------------------------------------------
(* MDNS::Resolver: lookupHostNames, lookupServices, lookup, setDomain.     *)

RECURSIVE AppendNamesUnchecked(_, _, _)
\* the loop of Resolver::lookup without its contains() test
AppendNamesUnchecked(list, questions, forHosts) ==
    IF questions = <<>> THEN list
    ELSE LET question == Head(questions)
             matches == IF forHosts THEN question.type \in {A, AAAA}
                        ELSE question.type = PTR
         IN AppendNamesUnchecked(
                IF matches THEN Append(list, Join(question.name)) ELSE list,
                Tail(questions), forHosts)

RECURSIVE AppendNewNames(_, _, _)
\* the loop of Resolver::lookup over query.questions() for one of the two lists;
\* forHosts selects isAddressRecord, otherwise isServiceQuery
AppendNewNames(list, questions, forHosts) ==
    IF questions = <<>> THEN list
    ELSE LET question == Head(questions)
             matches == IF forHosts THEN isAddressRecord(question)
                        ELSE isServiceQuery(question)
             decodedName == decodedHostName(NameToByteArray(question.name))
         IN AppendNewNames(
                IF matches /\ ~Contains(list, decodedName)
                THEN Append(list, decodedName) ELSE list,
                Tail(questions), forHosts)

\* Resolver::lookup: the return value, the three lists afterwards, the signals
lookup(query) ==
    IF questionCount(query) = 0 \/ Contains(m_queries, query)
    THEN [result |-> FALSE, queries |-> m_queries,
          hostNameQueries |-> m_hostNameQueries,
          serviceQueries |-> m_serviceQueries, signals |-> <<>>]
    ELSE LET hosts == AppendNewNames(m_hostNameQueries, query.questions, TRUE)
             services == AppendNewNames(m_serviceQueries, query.questions, FALSE)
         IN [result |-> TRUE, queries |-> Append(m_queries, query),
             hostNameQueries |-> hosts, serviceQueries |-> services,
             signals |->
                 (IF Len(m_hostNameQueries) # Len(hosts)
                  THEN <<Signal("hostNameQueriesChanged", hosts)>> ELSE <<>>)
                 \o (IF Len(m_serviceQueries) # Len(services)
                     THEN <<Signal("serviceQueriesChanged", services)>> ELSE <<>>)
                 \o <<Signal("queriesChanged", <<>>)>>]

RECURSIVE HostNameMessage(_, _)
\* the message Resolver::lookupHostNames builds
HostNameMessage(hostNames, message) ==
    IF hostNames = <<>> THEN message
    ELSE LET qualifiedName == qualifiedHostName(Head(hostNames), m_domain)
             encodedName == encodedHostName(qualifiedName)
         IN HostNameMessage(Tail(hostNames),
                IF ~Contains(m_hostNameQueries, qualifiedName)
                THEN addQuestion(addQuestion(message, Question(encodedName, AAAA)),
                                 Question(encodedName, A))
                ELSE message)

RECURSIVE ServiceMessage(_, _)
\* the message Resolver::lookupServices builds
ServiceMessage(serviceTypes, message) ==
    IF serviceTypes = <<>> THEN message
    ELSE LET qualifiedName == qualifiedHostName(Head(serviceTypes), m_domain)
             encodedName == encodedHostName(qualifiedName)
         IN ServiceMessage(Tail(serviceTypes),
                IF ~Contains(m_serviceQueries, qualifiedName)
                THEN addQuestion(message, Question(encodedName, PTR))
                ELSE message)

\* every question of the message has labels makeLabelList accepts
Encodable(message) ==
    \A i \in 1..Len(message.questions) : WellFormed(message.questions[i].name)

\* the state change of a call that ends in Resolver::lookup(query)
ApplyLookup(op, query, newlySubmitted) ==
    LET r == lookup(query)
    IN /\ Encodable(query)
       /\ r.result => Len(m_queries) < MaxQueries
       /\ m_queries' = r.queries
       /\ m_hostNameQueries' = r.hostNameQueries
       /\ m_serviceQueries' = r.serviceQueries
       /\ submitted' = submitted \cup newlySubmitted
       /\ call' = [op |-> op, result |-> r.result]
       /\ emitted' = r.signals
       /\ received' = <<>> /\ decoded' = <<>> /\ sent' = <<>>
       /\ UNCHANGED <<resolverClass, m_domain, m_ownAddresses, m_sockets>>
       /\ UNCHANGED upnpVars

LookupHostNames(hostNames) ==
    /\ resolverClass = "mdns"
    /\ ApplyLookup("lookupHostNames",
                   HostNameMessage(hostNames, EmptyMessage),
                   {<<"host", qualifiedHostName(hostNames[i], m_domain)>> :
                        i \in 1..Len(hostNames)})

LookupServices(serviceTypes) ==
    /\ resolverClass = "mdns"
    /\ ApplyLookup("lookupServices",
                   ServiceMessage(serviceTypes, EmptyMessage),
                   {<<"service", qualifiedHostName(serviceTypes[i], m_domain)>> :
                        i \in 1..Len(serviceTypes)})

Lookup(query) ==
    /\ resolverClass = "mdns"
    /\ ApplyLookup("lookup", query, {})

---------------------------------------------------------------------------
(* Addresses, ports and multicast groups.                                  *)

IPv4Addresses == {"192.168.1.2", "192.168.1.7"}

IPv6Addresses == {"fe80::2"}

\* the addresses of this host's interfaces; 192.168.1.7 is another host
LocalAddresses == {"192.168.1.2", "fe80::2"}

protocol(address) == IF address \in IPv4Addresses THEN "IPv4" ELSE "IPv6"

s_ssdpPort == 1900

\* a port the operating system picks for a socket bound to port 0
randomPort == 49152

s_ssdpUnicastIPv4 == "239.255.255.250"

s_ssdpUnicastIPv6 == "ff02::c"

\* SSDP::Resolver::multicastGroup
multicastGroup(address) ==
    IF protocol(address) = "IPv4" THEN s_ssdpUnicastIPv4 ELSE s_ssdpUnicastIPv6

\* multicastGroup(QUdpSocket *) of the mDNS resolver; a socket is named by the
\* wildcard address it is bound to
mdns_multicastGroup(socket) ==
    IF socket = "AnyIPv4" THEN "224.0.0.251" ELSE "ff02::fb"

nullptr == <<>>

\* AbstractResolver::socketForAddress: QHash::operator[] const
socketForAddress(address) ==
    IF address \in DOMAIN m_sockets THEN m_sockets[address] ELSE nullptr

---------------------------------------------------------------------------
(* SSDP payloads.  A payload is its status line, split at spaces, and its  *)
(* header lines up to the empty line; a header value is a token sequence.  *)

HeaderLine(name, value) == [name |-> name, value |-> value, leadingSpace |-> FALSE]

s_ssdpKeyMulticastGroup == "{multicast-group}"

s_ssdpKeyUdpPort == "{udp-port}"

s_ssdpKeyMinimumDelay == "{minimum-delay}"

s_ssdpKeyMaximumDelay == "{maximum-delay}"

s_ssdpKeyServiceType == "{service-type}"

s_ssdpQueryTemplate ==
    [status |-> <<"M-SEARCH", "*", "HTTP/1.1">>,
     headers |-> <<HeaderLine("ST", <<s_ssdpKeyServiceType>>),
                   HeaderLine("MAN", <<"\"ssdp:discover\"">>),
                   HeaderLine("HOST", <<s_ssdpKeyMulticastGroup, ":", s_ssdpKeyUdpPort>>),
                   HeaderLine("MX", <<s_ssdpKeyMaximumDelay>>),
                   HeaderLine("MM", <<s_ssdpKeyMinimumDelay>>),
                   HeaderLine("Content-Length", <<"0">>)>>]

ReplaceTokens(tokens, key, value) ==
    [i \in 1..Len(tokens) |-> IF tokens[i] = key THEN value ELSE tokens[i]]

\* QByteArray::replace(key, value) on a payload
replace(text, key, value) ==
    [status |-> ReplaceTokens(text.status, key, value),
     headers |-> [i \in 1..Len(text.headers) |->
                     [name |-> IF text.headers[i].name = key THEN value
                               ELSE text.headers[i].name,
                      value |-> ReplaceTokens(text.headers[i].value, key, value),
                      leadingSpace |-> text.headers[i].leadingSpace]]]

ServiceLookupRequest(serviceType) ==
    [serviceType |-> serviceType, minimumDelay |-> 0, maximumDelay |-> 5]

\* the query SSDP::Resolver::lookupService builds
lookupServiceQuery(request) ==
    replace(replace(replace(replace(s_ssdpQueryTemplate,
                                    s_ssdpKeyUdpPort, ToString(s_ssdpPort)),
                            s_ssdpKeyMinimumDelay, ToString(request.minimumDelay)),
                    s_ssdpKeyMaximumDelay, ToString(request.maximumDelay)),
            s_ssdpKeyServiceType, request.serviceType)

\* a query finalized with the group of IPv4 whatever the address
finalizeQueryForIPv4(address, query) ==
    replace(query, s_ssdpKeyMulticastGroup, s_ssdpUnicastIPv4)

\* SSDP::Resolver::finalizeQuery
finalizeQuery(address, query) ==
    replace(query, s_ssdpKeyMulticastGroup, multicastGroup(address))

\* MulticastResolver::addQuery without its contains() test
addQueryUnchecked(query) == [result |-> TRUE, queries |-> Append(m_queries, query)]

\* MulticastResolver::addQuery: the return value and m_queries afterwards
addQuery(query) ==
    IF ~Contains(m_queries, query)
    THEN [result |-> TRUE, queries |-> Append(m_queries, query)]
    ELSE [result |-> FALSE, queries |-> m_queries]

---------------------------------------------------------------------------
(* http::Message::parse and SSDP::NotifyMessage::parse.                    *)

\* the tokens that start with "HTTP/"
HttpProtocols == {"HTTP/1.1", "HTTP/1.0"}

InvalidHttpMessage == [type |-> "Invalid", status |-> <<>>, headers |-> <<>>]

parseStatusLine(line) ==
    IF Len(line) = 3
    THEN IF line[1] \in HttpProtocols
         THEN [type |-> "Response", status |-> line, headers |-> <<>>]
         ELSE IF line[3] \in HttpProtocols
              THEN [type |-> "Request", status |-> line, headers |-> <<>>]
              ELSE InvalidHttpMessage
    ELSE InvalidHttpMessage

RECURSIVE parseHeaderLines(_, _)
\* the loop of http::Message::parse over the header lines
parseHeaderLines(lines, headers) ==
    IF lines = <<>> THEN headers
    ELSE LET line == Head(lines)
         IN parseHeaderLines(Tail(lines),
                IF line.leadingSpace
                THEN IF headers = <<>> THEN headers
                     ELSE [headers EXCEPT ![Len(headers)].value = @ \o line.value]
                ELSE IF line.name # ""
                     THEN Append(headers, [name |-> line.name, value |-> line.value])
                     ELSE headers)

WithHeaders(message, lines) ==
    IF message.type = "Invalid" THEN InvalidHttpMessage
    ELSE [message EXCEPT !.headers = parseHeaderLines(lines, <<>>)]

\* http::Message::parse
httpParse(data) == WithHeaders(parseStatusLine(data.status), data.headers)

httpProtocol(message) ==
    IF message.type = "Request" THEN message.status[3]
    ELSE IF message.type = "Response" THEN message.status[1] ELSE ""

httpVerb(message) == IF message.type = "Request" THEN message.status[1] ELSE ""

httpResource(message) == IF message.type = "Request" THEN message.status[2] ELSE ""

\* core::parse<uint> of the status field; -1 is std::nullopt
httpStatusCode(message) ==
    IF message.type # "Response" THEN -1
    ELSE CASE message.status[2] = "200" -> 200
           [] message.status[2] = "404" -> 404
           [] message.status[2] = "500" -> 500
           [] OTHER -> -1

\* lower case of the header names that occur
LowerCase ==
    [token \in {"USN", "usn", "NT", "nt", "NTS", "nts", "Location", "LOCATION",
                "location", "AL", "al"} |->
        CASE token \in {"USN", "usn"} -> "usn"
          [] token \in {"NT", "nt"} -> "nt"
          [] token \in {"NTS", "nts"} -> "nts"
          [] token \in {"Location", "LOCATION", "location"} -> "location"
          [] OTHER -> "al"]

\* operator== of CaseInsensitive<QByteArray>
CaseInsensitiveEqual(l, r) ==
    (IF l \in DOMAIN LowerCase THEN LowerCase[l] ELSE l)
        = (IF r \in DOMAIN LowerCase THEN LowerCase[r] ELSE r)

RECURSIVE parseAlternativeLocations(_)
\* every run of tokens between a "<" and the next ">"
parseAlternativeLocations(text) ==
    IF ~Contains(text, "<") THEN <<>>
    ELSE LET start == CHOOSE i \in 1..Len(text) :
                          text[i] = "<" /\ \A j \in 1..(i - 1) : text[j] # "<"
             rest == SubSeq(text, start + 1, Len(text))
         IN IF ~Contains(rest, ">") THEN <<>>
            ELSE LET end == CHOOSE i \in 1..Len(rest) :
                                rest[i] = ">" /\ \A j \in 1..(i - 1) : rest[j] # ">"
                 IN <<SubSeq(rest, 1, end - 1)>>
                        \o parseAlternativeLocations(SubSeq(rest, end + 1, Len(rest)))

InvalidNotifyMessage ==
    [type |-> "Invalid", serviceName |-> <<>>, serviceType |-> <<>>,
     locations |-> <<>>, altLocations |-> <<>>]

RECURSIVE readNotifyHeaders(_, _)
\* the loop of NotifyMessage::parse over message.headers(); notifyType is its
\* local variable
readNotifyHeaders(headers, response) ==
    IF headers = <<>> THEN response
    ELSE LET name == Head(headers).name
             value == Head(headers).value
         IN readNotifyHeaders(Tail(headers),
                IF CaseInsensitiveEqual(name, "USN")
                THEN [response EXCEPT !.serviceName = value]
                ELSE IF CaseInsensitiveEqual(name, "NT")
                THEN [response EXCEPT !.serviceType = value]
                ELSE IF CaseInsensitiveEqual(name, "NTS")
                THEN [response EXCEPT !.notifyType = value]
                ELSE IF CaseInsensitiveEqual(name, "Location")
                THEN [response EXCEPT !.locations = Append(@, value)]
                ELSE IF CaseInsensitiveEqual(name, "AL")
                THEN [response EXCEPT !.altLocations = @ \o parseAlternativeLocations(value)]
                ELSE response)

\* the checks of NotifyMessage::parse on the status line without those of the
\* verb and the status code
AcceptedProtocol(message) ==
    /\ message.type # "Invalid"
    /\ httpProtocol(message) = "HTTP/1.1"

\* the checks of NotifyMessage::parse on the status line
AcceptedStatus(message) ==
    /\ message.type # "Invalid"
    /\ httpProtocol(message) = "HTTP/1.1"
    /\ message.type = "Request" =>
           /\ httpVerb(message) # "M-SEARCH"
           /\ httpVerb(message) = "NOTIFY"
           /\ httpResource(message) = "*"
    /\ message.type = "Response" => httpStatusCode(message) = 200

\* a type that takes every NTS header of a request for ssdp:alive
NotifyTypeOfAnySubType(messageType, notifyType) ==
    IF messageType = "Response" \/ notifyType # <<>> THEN "Alive" ELSE "Invalid"

\* the type NotifyMessage::parse derives from the NTS header
NotifyType(messageType, notifyType) ==
    IF messageType = "Response" THEN "Alive"
    ELSE IF notifyType = <<"ssdp:alive">> THEN "Alive"
    ELSE IF notifyType = <<"ssdp:byebye">> THEN "ByeBye"
    ELSE "Invalid"

NotifyMessageOf(type, r) ==
    IF type = "Invalid" THEN InvalidNotifyMessage
    ELSE [type |-> type, serviceName |-> r.serviceName, serviceType |-> r.serviceType,
          locations |-> r.locations, altLocations |-> r.altLocations]

NotifyMessageWith(messageType, r) ==
    NotifyMessageOf(NotifyType(messageType, r.notifyType), r)

NotifyMessageFrom(message) ==
    IF ~AcceptedStatus(message) THEN InvalidNotifyMessage
    ELSE NotifyMessageWith(message.type,
             readNotifyHeaders(message.headers,
                 [type |-> "Invalid", serviceName |-> <<>>, serviceType |-> <<>>,
                  locations |-> <<>>, altLocations |-> <<>>, notifyType |-> <<>>]))

\* SSDP::NotifyMessage::parse; the expiry is not represented
NotifyMessageParse(data) == NotifyMessageFrom(httpParse(data))

\* the signal SSDP::Resolver::processDatagram emits for a parsed message
NotifySignals(response) ==
    IF response.type = "Alive"
    THEN <<Signal("serviceFound",
                  [name |-> response.serviceName, type |-> response.serviceType,
                   locations |-> response.locations,
                   alternativeLocations |-> response.altLocations])>>
    ELSE IF response.type = "ByeBye"
    THEN <<Signal("serviceLost", response.serviceName)>>
    ELSE <<>>

\* SSDP::Resolver::processDatagram: the signals it emits
processDatagram(data) == NotifySignals(NotifyMessageParse(data))

---------------------------------------------------------------------------
(* The UPnP descriptor pipeline: upnp::Resolver and its DetailLoader       *)
(* objects.  A QNetworkReply is named by its position in replies, a        *)
(* DetailLoader by its position in loaders.  The operators below work on   *)
(* a record u of replies, m_pendingReplies, loaders and the signals        *)
(* emitted so far by the running handler.                                  *)

LoadIcons == "LoadIcons"

LoadServiceDescription == "LoadServiceDescription"

\* DeviceDescription{}
DefaultDeviceDescription ==
    [url |-> <<>>, baseUrl |-> <<>>, specVersion |-> <<>>, uniqueDeviceName |-> <<>>,
     deviceType |-> <<>>, displayName |-> <<>>, manufacturer |-> <<>>, model |-> <<>>,
     presentationUrl |-> <<>>, serialNumber |-> <<>>, icons |-> <<>>, services |-> <<>>]

\* the text of the URLBase element of the description "based"
DescriptionUrlBase == <<"http://192.168.1.9", "base", "">>

\* DeviceDescription::parse of a reply body fetched from deviceUrl: "plain" is
\* a device without icons and services, "rich" a device with one icon and one
\* service that have URLs, "based" the same with a URLBase element in <root>,
\* which the step of State::Root assigns to baseUrl; every other body is no
\* device description
DeviceDescriptionParse(body, deviceUrl) ==
    LET device == [DefaultDeviceDescription EXCEPT
                       !.url = deviceUrl, !.baseUrl = deviceUrl,
                       !.uniqueDeviceName = <<"uuid:device">>,
                       !.deviceType = <<"urn:device:1">>]
        rich == [device EXCEPT
                     !.icons = <<[url |-> <<"icon.png">>, data |-> <<>>]>>,
                     !.services = <<[scpdUrl |-> <<"scpd.xml">>, scpd |-> <<>>]>>]
    IN CASE body = "plain" -> <<device>>
         [] body = "rich" -> <<rich>>
         [] body = "based" -> <<[rich EXCEPT !.baseUrl = DescriptionUrlBase]>>
         [] OTHER -> <<>>

\* ControlPointDescription::parse of a reply body; <<>> is std::nullopt
ControlPointDescriptionParse(body) == IF body = "scpd" THEN <<"scpd">> ELSE <<>>

\* QUrl::resolved for a relative-path reference; a URL is the sequence of its
\* authority and its path segments
resolved(base, relative) ==
    IF base = <<>> THEN relative ELSE SubSeq(base, 1, Len(base) - 1) \o relative

isRunning(u, reply) == u.replies[reply].state = "running"

removeOne(list, x) ==
    IF ~Contains(list, x) THEN list
    ELSE LET i == CHOOSE k \in 1..Len(list) :
                      list[k] = x /\ \A j \in 1..(k - 1) : list[j] # x
         IN SubSeq(list, 1, i - 1) \o SubSeq(list, i + 1, Len(list))

\* a check that does not look at the other replies of the loader
checkIfThisRequestFinished(u, loader) ==
    [u EXCEPT
         !.signals = Append(@, [signal |-> "deviceFound",
                                args |-> <<"deviceFound", u.loaders[loader].m_device>>,
                                loader |-> loader]),
         !.loaders[loader].finished = @ + 1]

\* DetailLoader::checkIfAllRequestsFinished, and the slot the resolver connects
\* to DetailLoader::finished
checkIfAllRequestsFinished(u, loader) ==
    IF \E i \in 1..Len(u.loaders[loader].m_pendingReplies) :
           isRunning(u, u.loaders[loader].m_pendingReplies[i])
    THEN u
    ELSE [u EXCEPT
              !.signals = Append(@, [signal |-> "deviceFound",
                                     args |-> <<"deviceFound",
                                                u.loaders[loader].m_device>>,
                                     loader |-> loader]),
              !.loaders[loader].finished = @ + 1]

\* updateItem for the item a reply was requested for
updateItem(u, r, body) ==
    IF r.kind = "icon"
    THEN [u EXCEPT !.loaders[r.loader].m_device.icons[r.index].data = <<body>>]
    ELSE [u EXCEPT !.loaders[r.loader].m_device.services[r.index].scpd =
                       ControlPointDescriptionParse(body)]

\* the lambda DetailLoader::load connects to QNetworkReply::finished, giving up
\* on an error
onDetailFinishedOrFailed(u, reply, state, body) ==
    IF state # "ok" THEN [u EXCEPT !.replies[reply].state = state]
    ELSE checkIfAllRequestsFinished(
             updateItem([u EXCEPT !.replies[reply].state = state], u.replies[reply], body),
             u.replies[reply].loader)

\* the lambda DetailLoader::load connects to QNetworkReply::finished
onDetailFinished(u, reply, state, body) ==
    checkIfAllRequestsFinished(
        IF state # "ok" THEN [u EXCEPT !.replies[reply].state = state]
        ELSE updateItem([u EXCEPT !.replies[reply].state = state], u.replies[reply], body),
        u.replies[reply].loader)

itemUrl(kind, item) == IF kind = "icon" THEN item.url ELSE item.scpdUrl

itemHasData(kind, item) == IF kind = "icon" THEN item.data # <<>> ELSE item.scpd # <<>>

\* one round of the loop of DetailLoader::load
loadItem(u, loader, kind, index, item) ==
    IF itemUrl(kind, item) = <<>> \/ itemHasData(kind, item) THEN u
    ELSE [u EXCEPT
              !.replies = Append(@, [kind |-> kind,
                                     url |-> resolved(u.loaders[loader].m_device.url,
                                                      itemUrl(kind, item)),
                                     loader |-> loader, index |-> index,
                                     state |-> "running"]),
              !.loaders[loader].m_pendingReplies = Append(@, Len(u.replies) + 1)]

RECURSIVE loadFrom(_, _, _, _, _)
loadFrom(u, loader, kind, items, index) ==
    IF index > Len(items) THEN u
    ELSE loadFrom(loadItem(u, loader, kind, index, items[index]),
                  loader, kind, items, index + 1)

\* DetailLoader::load for the icons (kind "icon") or the services (kind "scpd")
\* of loader's device
load(u, loader, kind) ==
    loadFrom(u, loader, kind,
             IF kind = "icon" THEN u.loaders[loader].m_device.icons
             ELSE u.loaders[loader].m_device.services, 1)

loadIcons(u, loader) == IF LoadIcons \in m_behaviors THEN load(u, loader, "icon") ELSE u

loadServiceDescription(u, loader) ==
    IF LoadServiceDescription \in m_behaviors THEN load(u, loader, "scpd") ELSE u

\* m_pendingReplies += detailLoader->pendingReplies()
addPendingReplies(u, loader) ==
    [u EXCEPT !.m_pendingReplies = @ \o u.loaders[loader].m_pendingReplies]

\* one round of the loop of Resolver::onDeviceDescriptionReceived
onDeviceParsed(u, device) ==
    IF m_behaviors # {} /\ u.manager # 0
    THEN addPendingReplies(
             loadServiceDescription(
                 loadIcons([u EXCEPT !.loaders = Append(@, [m_device |-> device,
                                                            m_pendingReplies |-> <<>>,
                                                            finished |-> 0])],
                           Len(u.loaders) + 1),
                 Len(u.loaders) + 1),
             Len(u.loaders) + 1)
    ELSE [u EXCEPT !.signals = Append(@, Signal("deviceFound", device))]

RECURSIVE onDevicesParsed(_, _)
onDevicesParsed(u, deviceList) ==
    IF deviceList = <<>> THEN u
    ELSE onDevicesParsed(onDeviceParsed(u, Head(deviceList)), Tail(deviceList))

\* Resolver::onDeviceDescriptionReceived
onDeviceDescriptionReceived(u, reply, state, body) ==
    onDevicesParsed([u EXCEPT !.m_pendingReplies = removeOne(@, reply),
                              !.replies[reply].state = state],
                    DeviceDescriptionParse(body, u.replies[reply].url))

\* what QNetworkReply::finished runs for a reply
onReplyFinished(u, reply, state, body) ==
    IF u.replies[reply].kind = "device"
    THEN onDeviceDescriptionReceived(u, reply, state, body)
    ELSE onDetailFinished(u, reply, state, body)

RECURSIVE abortReplies(_, _)
\* the loop of Resolver::abortPendingReplies; QNetworkReply::abort() of a
\* running reply emits finished() before it returns, and does nothing for a
\* finished reply
abortReplies(u, abortedReplies) ==
    IF abortedReplies = <<>> THEN u
    ELSE abortReplies(IF isRunning(u, Head(abortedReplies))
                      THEN onReplyFinished(u, Head(abortedReplies), "aborted", "")
                      ELSE u,
                      Tail(abortedReplies))

\* Resolver::abortPendingReplies
abortPendingReplies(u) ==
    abortReplies([u EXCEPT !.m_pendingReplies = <<>>], u.m_pendingReplies)

\* the DeviceDescription Resolver::onServiceFound reports without a download
directDeviceDescription(service, url) ==
    [DefaultDeviceDescription EXCEPT
         !.url = url, !.deviceType = service.type, !.uniqueDeviceName = service.name]

\* one round of the loop of Resolver::onServiceFound that downloads whatever
\* HTTP client is set
onLocationFoundDownloading(u, service, url) ==
    [u EXCEPT
         !.replies = Append(@, [kind |-> "device", url |-> url, loader |-> 0,
                                index |-> 0, state |-> "running"]),
         !.m_pendingReplies = Append(@, Len(u.replies) + 1)]

\* one round of the loop of Resolver::onServiceFound
onLocationFound(u, service, url) ==
    IF u.manager # 0
    THEN [u EXCEPT
              !.replies = Append(@, [kind |-> "device", url |-> url, loader |-> 0,
                                     index |-> 0, state |-> "running"]),
              !.m_pendingReplies = Append(@, Len(u.replies) + 1)]
    ELSE [u EXCEPT !.signals = Append(@, Signal("deviceFound",
                                                directDeviceDescription(service, url)))]

RECURSIVE onLocationsFound(_, _, _)
onLocationsFound(u, service, locationList) ==
    IF locationList = <<>> THEN u
    ELSE onLocationsFound(onLocationFound(u, service, Head(locationList)),
                          service, Tail(locationList))

\* Resolver::onServiceFound
onServiceFound(u, service) == onLocationsFound(u, service, service.locations)

\* the pipeline's state as the handlers find it
Pipeline ==
    [replies |-> replies, m_pendingReplies |-> m_pendingReplies, loaders |-> loaders,
     manager |-> m_networkAccessManager, signals |-> <<>>]

---------------------------------------------------------------------------
(* The handlers of the multicast resolvers.                                *)

mdnsVars == <<m_domain, m_hostNameQueries, m_serviceQueries, m_ownAddresses, submitted>>

\* the protocol port: SSDP::Resolver::port, s_mdnsPort
port == IF resolverClass = "mdns" THEN s_mdnsPort ELSE s_ssdpPort

Handler(op) == [op |-> op, result |-> TRUE]

\* a handler's signals, each with the index of the datagram that caused it
Caused(signals, i) ==
    [k \in 1..Len(signals) |->
        [signal |-> signals[k].signal, args |-> signals[k].args, cause |-> i]]

\* SSDP::Resolver::lookupService
LookupService(request) ==
    LET r == addQuery(lookupServiceQuery(request))
    IN /\ resolverClass \in {"ssdp", "upnp"}
       /\ ~destroyed
       /\ r.result => Len(m_queries) < MaxQueries
       /\ m_queries' = r.queries
       /\ call' = [op |-> "lookupService", result |-> r.result]
       /\ emitted' = <<>> /\ received' = <<>> /\ decoded' = <<>> /\ sent' = <<>>
       /\ UNCHANGED <<resolverClass, m_sockets>>
       /\ UNCHANGED mdnsVars
       /\ UNCHANGED upnpVars

\* what QUdpSocket::joinMulticastGroup does in createSocket: it returns true,
\* or it returns false and the socket has an error, or it returns false and
\* the socket has the error UnknownSocketError
JoinOutcomes == {"joined", "SocketError", "UnknownSocketError"}

\* the addresses for which joining the group succeeds
Joined == [address \in IPv4Addresses \cup IPv6Addresses |-> "joined"]

\* a createSocket that returns a socket whether bind succeeded or not
creatableUnbound(bindable, joins) ==
    {address \in DOMAIN joins : joins[address] # "SocketError"}

\* the addresses for which MulticastResolver::createSocket returns a socket:
\* bind succeeds, and joinMulticastGroup returns true or leaves
\* UnknownSocketError
creatable(bindable, joins) ==
    {address \in bindable : joins[address] # "SocketError"}

\* the objects std::make_shared<QUdpSocket> returns for the given addresses:
\* an object is a number that differs from those of the other new sockets and
\* from those of the sockets of the table, which live until the scan ends
makeSockets(addresses) ==
    CHOOSE object \in [addresses -> 1..(Cardinality(DOMAIN m_sockets)
                                            + Cardinality(addresses))] :
        /\ \A a, b \in addresses : object[a] = object[b] => a = b
        /\ \A a \in addresses : \A b \in DOMAIN m_sockets : object[a] # m_sockets[b][3]

\* MulticastResolver::createSocket when bind and join succeed
createSocket(address, object) == <<"socket", address, object>>

\* a scan that creates a socket for every observed address it can create one
\* for, whether the table has one or not
rescanNetworkInterfaces(observed, created) ==
    [address \in {a \in observed : a \in created} |->
        createSocket(address, makeSockets({a \in observed : a \in created})[address])]

\* the addresses for which the scan calls createSocket: the observed ones
\* without a socket in the table
attempted(observed) == {a \in observed : a \notin DOMAIN m_sockets}

\* AbstractResolver::scanNetworkInterfaces: the socket table afterwards, where
\* observed are the supported addresses of the supported interfaces and
\* created those for which createSocket returns a socket
scanNetworkInterfaces(observed, created) ==
    [address \in {a \in observed : a \in DOMAIN m_sockets \/ a \in created} |->
        IF address \in DOMAIN m_sockets THEN m_sockets[address]
        ELSE createSocket(address,
                          makeSockets(attempted(observed) \cap created)[address])]

\* a submitQueries that writes the queries last to first
submitQueriesReversed(sockets) ==
    [address \in DOMAIN sockets |->
        [i \in 1..Len(m_queries) |->
            [data |-> finalizeQuery(address, m_queries[Len(m_queries) + 1 - i]),
             group |-> multicastGroup(address), port |-> port]]]

\* MulticastResolver::submitQueries: the datagrams written to each socket
submitQueries(sockets) ==
    [address \in DOMAIN sockets |->
        [i \in 1..Len(m_queries) |->
            [data |-> finalizeQuery(address, m_queries[i]),
             group |-> multicastGroup(address), port |-> port]]]

\* AbstractResolver::onTimeout; observed are the supported addresses the scan
\* reads, bindable those a socket can be bound for, and joins the outcome of
\* joining the group for each address
OnTimeout(observed, bindable, joins) ==
    /\ resolverClass \in {"ssdp", "upnp"}
    /\ ~destroyed
    /\ m_sockets' = scanNetworkInterfaces(observed, creatable(bindable, joins))
    /\ sent' = submitQueries(m_sockets')
    /\ call' = [op |-> "onTimeout", result |-> TRUE, observed |-> observed,
                bindable |-> bindable, joins |-> joins]
    /\ emitted' = <<>> /\ received' = <<>> /\ decoded' = <<>>
    /\ UNCHANGED <<resolverClass, m_queries>>
    /\ UNCHANGED mdnsVars
    /\ UNCHANGED upnpVars

\* MulticastResolver::isOwnMessage comparing with the port the socket is bound to
isOwnMessageOfBoundPort(message) ==
    /\ message.senderPort = randomPort
    /\ socketForAddress(message.senderAddress) # nullptr
    /\ Contains(m_queries, message.data)

\* MulticastResolver::isOwnMessage
isOwnMessage(message) ==
    /\ message.senderPort = port
    /\ socketForAddress(message.senderAddress) # nullptr
    /\ Contains(m_queries, message.data)

Emit(u, signals) == [u EXCEPT !.signals = @ \o signals]

\* processDatagram with, for a UPnP resolver, the onServiceFound slot that runs
\* while serviceFound is emitted
processed(u, signals) ==
    IF resolverClass = "upnp" /\ signals # <<>> /\ signals[1].signal = "serviceFound"
    THEN onServiceFound(Emit(u, signals), Argument(signals[1]))
    ELSE Emit(u, signals)

\* one round of the loop of MulticastResolver::onDatagramReceived
onDatagram(r, datagram, i) ==
    IF isOwnMessage(datagram) THEN r
    ELSE [u |-> processed(r.u, Caused(processDatagram(datagram.data), i)),
          decoded |-> Append(r.decoded, i)]

RECURSIVE onDatagrams(_, _, _)
onDatagrams(r, batch, i) ==
    IF i > Len(batch) THEN r
    ELSE onDatagrams(onDatagram(r, batch[i], i), batch, i + 1)

\* MulticastResolver::onDatagramReceived
onDatagramReceived(batch) == onDatagrams([u |-> Pipeline, decoded |-> <<>>], batch, 1)

ApplyDatagrams(batch, r) ==
    /\ Len(r.u.replies) <= MaxReplies
    /\ received' = batch
    /\ decoded' = r.decoded
    /\ emitted' = r.u.signals
    /\ replies' = r.u.replies
    /\ m_pendingReplies' = r.u.m_pendingReplies
    /\ loaders' = r.u.loaders

OnDatagramReceived(batch) ==
    /\ resolverClass \in {"ssdp", "upnp"}
    /\ ~destroyed
    /\ DOMAIN m_sockets # {}
    /\ ApplyDatagrams(batch, onDatagramReceived(batch))
    /\ call' = Handler("onDatagramReceived")
    /\ sent' = <<>>
    /\ UNCHANGED <<resolverClass, m_queries, m_sockets, m_networkAccessManager,
                   m_behaviors, destroyed>>
    /\ UNCHANGED mdnsVars

---------------------------------------------------------------------------
(* The handlers of the mDNS resolver.                                      *)

\* MDNS::Resolver::createSockets when both binds succeed
createSockets == <<"AnyIPv4", "AnyIPv6">>

\* MDNS::Resolver::submitQueries
mdns_submitQueries ==
    [i \in 1..Len(m_sockets) |->
        [j \in 1..Len(m_queries) |->
            [data |-> m_queries[j], group |-> mdns_multicastGroup(m_sockets[i]),
             port |-> s_mdnsPort]]]

\* joinMulticastGroup returns true for both sockets of the mDNS resolver
MdnsJoined == [socket \in {"AnyIPv4", "AnyIPv6"} |-> "joined"]

\* MDNS::Resolver::onTimeout; hostAddresses are the addresses the scan reads for
\* the supported interfaces, in the order it reads them, and joins the outcome
\* of joining the group for each socket
MdnsOnTimeout(hostAddresses, joins) ==
    /\ resolverClass = "mdns"
    /\ m_ownAddresses' = FirstOccurrences(hostAddresses)
    /\ sent' = mdns_submitQueries
    /\ call' = [op |-> "onTimeout", result |-> TRUE, joins |-> joins]
    /\ emitted' = <<>> /\ received' = <<>> /\ decoded' = <<>>
    /\ UNCHANGED <<resolverClass, m_queries, m_sockets, m_domain, m_hostNameQueries,
                   m_serviceQueries, submitted>>
    /\ UNCHANGED upnpVars

\* MDNS::Resolver::isOwnMessage
mdns_isOwnMessage(message) ==
    /\ message.senderPort = s_mdnsPort
    /\ Contains(m_ownAddresses, message.senderAddress)
    /\ Contains(m_queries, message.data)

\* the names of a message's responses of the given record types
ResponseNames(message, types) ==
    {Join(message.responses[i].name) :
        i \in {j \in 1..Len(message.responses) : message.responses[j].type \in types}}

\* the body of the loop of MDNS::Resolver::onReadyRead for a datagram that is
\* not the resolver's own: the signals it emits; hashOrder is the iteration
\* order of the unordered maps
mdns_processDatagram(message, hashOrder) ==
    LET rs == message.responses
        named(name, types) ==
            SelectSeq(rs, LAMBDA r : Join(r.name) = name /\ r.type \in types)
        resolvedAddresses(name) ==
            FirstOccurrences([i \in 1..Len(named(name, {A, AAAA})) |->
                                 named(name, {A, AAAA})[i].value])
        resolvedText(name) ==
            IF named(name, {TXT}) = <<>> THEN <<>> ELSE named(name, {TXT})[1].value
        services == SelectSeq(hashOrder, LAMBDA n : n \in ResponseNames(message, {SRV}))
        hosts == SelectSeq(hashOrder, LAMBDA n : n \in ResponseNames(message, {A, AAAA}))
    IN [i \in 1..Len(services) |->
           Signal("serviceResolved",
                  [domain |-> m_domain, name |-> services[i],
                   service |-> named(services[i], {SRV})[1].value,
                   info |-> resolvedText(services[i])])]
       \o [i \in 1..Len(hosts) |->
              Signal("hostNameResolved",
                     [name |-> normalizedHostName(hosts[i], m_domain),
                      addresses |-> resolvedAddresses(hosts[i])])]
       \o <<Signal("messageReceived", message)>>

\* one round of the loop of MDNS::Resolver::onReadyRead
mdns_onDatagram(r, datagram, i, hashOrder) ==
    IF mdns_isOwnMessage(datagram) THEN r
    ELSE [signals |-> r.signals
                          \o Caused(mdns_processDatagram(datagram.data, hashOrder), i),
          decoded |-> Append(r.decoded, i)]

RECURSIVE mdns_onDatagrams(_, _, _, _)
mdns_onDatagrams(r, batch, i, hashOrder) ==
    IF i > Len(batch) THEN r
    ELSE mdns_onDatagrams(mdns_onDatagram(r, batch[i], i, hashOrder),
                          batch, i + 1, hashOrder)

\* a loop that reads the datagram that arrived last first
onReadyReadNewestFirst(batch, hashOrder) ==
    LET n == Len(batch)
        r == mdns_onDatagrams([signals |-> <<>>, decoded |-> <<>>],
                              [i \in 1..n |-> batch[n + 1 - i]], 1, hashOrder)
    IN [signals |-> [k \in 1..Len(r.signals) |->
                        [r.signals[k] EXCEPT !.cause = n + 1 - @]],
        decoded |-> [k \in 1..Len(r.decoded) |-> n + 1 - r.decoded[k]]]

\* MDNS::Resolver::onReadyRead
onReadyRead(batch, hashOrder) ==
    mdns_onDatagrams([signals |-> <<>>, decoded |-> <<>>], batch, 1, hashOrder)

ApplyReadyRead(batch, r) ==
    /\ received' = batch
    /\ decoded' = r.decoded
    /\ emitted' = r.signals

OnReadyRead(batch, hashOrder) ==
    /\ resolverClass = "mdns"
    /\ m_sockets # <<>>
    /\ ApplyReadyRead(batch, onReadyRead(batch, hashOrder))
    /\ call' = Handler("onReadyRead")
    /\ sent' = <<>>
    /\ UNCHANGED <<resolverClass, m_queries, m_sockets>>
    /\ UNCHANGED mdnsVars
    /\ UNCHANGED upnpVars

---------------------------------------------------------------------------
(* The handlers of the UPnP resolver.                                      *)

ApplyPipeline(u, signals) ==
    /\ Len(u.replies) <= MaxReplies
    /\ Len(u.loaders) <= MaxLoaders
    /\ replies' = u.replies
    /\ m_pendingReplies' = u.m_pendingReplies
    /\ loaders' = u.loaders
    /\ emitted' = u.signals \o signals
    /\ received' = <<>> /\ decoded' = <<>> /\ sent' = <<>>
    /\ UNCHANGED <<resolverClass, m_queries, m_sockets>>
    /\ UNCHANGED mdnsVars

\* Resolver::setBehaviors
SetBehaviors(newBehaviors) ==
    /\ resolverClass = "upnp"
    /\ ~destroyed
    /\ m_behaviors' = newBehaviors
    /\ ApplyPipeline(Pipeline,
                     IF m_behaviors # newBehaviors
                     THEN <<Signal("behaviorsChanged", newBehaviors)>> ELSE <<>>)
    /\ call' = Handler("setBehaviors")
    /\ UNCHANGED <<m_networkAccessManager, destroyed>>

\* Resolver::setNetworkAccessManager
SetNetworkAccessManager(newManager) ==
    /\ resolverClass = "upnp"
    /\ ~destroyed
    /\ m_networkAccessManager' = newManager
    /\ IF m_networkAccessManager # newManager
       THEN ApplyPipeline(abortPendingReplies([Pipeline EXCEPT !.manager = newManager]),
                          <<Signal("networkAccessManagerChanged", newManager)>>)
       ELSE ApplyPipeline(Pipeline, <<>>)
    /\ call' = Handler("setNetworkAccessManager")
    /\ UNCHANGED <<m_behaviors, destroyed>>

\* QNetworkReply::finished of a running reply: state is "ok" or "error", body
\* what the reply delivers
ReplyFinished(reply, state, body) ==
    /\ resolverClass = "upnp"
    /\ ~destroyed
    /\ reply \in 1..Len(replies)
    /\ replies[reply].state = "running"
    /\ ApplyPipeline(onReplyFinished(Pipeline, reply, state, body), <<>>)
    /\ call' = Handler("finished")
    /\ UNCHANGED <<m_networkAccessManager, m_behaviors, destroyed>>

\* Resolver::~Resolver
Destroy ==
    /\ resolverClass = "upnp"
    /\ ~destroyed
    /\ destroyed' = TRUE
    /\ ApplyPipeline(abortPendingReplies(Pipeline), <<>>)
    /\ call' = Handler("~Resolver")
    /\ UNCHANGED <<m_networkAccessManager, m_behaviors>>

---------------------------------------------------------------------------
(* Inputs of the multicast resolvers.                                      *)

Perms(S) ==
    {s \in [1..Cardinality(S) -> S] : \A i, j \in 1..Cardinality(S) : s[i] = s[j] => i = j}

ServiceTypes == {"ssdp:all", "upnp:rootdevice"}

DeviceLocation == <<"http://192.168.1.7", "dd.xml">>

NotifyHeaders(subType, locations) ==
    <<HeaderLine("NT", <<"upnp:rootdevice">>), HeaderLine("NTS", <<subType>>),
      HeaderLine("USN", <<"uuid:device">>)>>
        \o [i \in 1..Len(locations) |-> HeaderLine("Location", locations[i])]

AliveNotify ==
    [status |-> <<"NOTIFY", "*", "HTTP/1.1">>,
     headers |-> NotifyHeaders("ssdp:alive", <<DeviceLocation>>)]

\* an mDNS message that answers with two addresses of one host, a service of
\* another name and its text
ResponseMessage ==
    [questions |-> <<>>,
     responses |-> <<[name |-> <<<<"alpha">>, <<"local">>>>, type |-> A,
                      value |-> "192.168.1.7"],
                     [name |-> <<<<"printer">>, <<"_ipp">>, <<"_tcp">>, <<"local">>>>,
                      type |-> SRV, value |-> <<"alpha", Dot, "local">>],
                     [name |-> <<<<"alpha">>, <<"local">>>>, type |-> AAAA,
                      value |-> "fe80::7"],
                     [name |-> <<<<"printer">>, <<"_ipp">>, <<"_tcp">>, <<"local">>>>,
                      type |-> TXT, value |-> <<"rp=ipp/print">>]>>]

Datagram(data, senderAddress, senderPort) ==
    [data |-> data, senderPort |-> senderPort, senderAddress |-> senderAddress]

\* payloads that may echo a query: the stored queries and one message of a peer
EchoPayloads ==
    Range(m_queries)
        \cup (IF resolverClass = "mdns" THEN {ResponseMessage} ELSE {AliveNotify})

EchoDatagrams ==
    {Datagram(data, senderAddress, senderPort) :
        data \in EchoPayloads,
        senderAddress \in {"192.168.1.2", "192.168.1.7"},
        senderPort \in {port, randomPort}}

\* the iteration orders of the unordered maps for a batch of mDNS datagrams
HashOrders(batch) ==
    Perms(UNION {ResponseNames(batch[i].data, {A, AAAA, SRV, TXT}) : i \in 1..Len(batch)})

---------------------------------------------------------------------------
(* Inputs of the mDNS resolver.                                            *)

HostNameInputs ==
    {<<"alpha">>, <<"beta">>, <<"beta", Dot, "local">>, <<"beta", Dot, "local", Dot>>}

ServiceTypeInputs ==
    {<<"_http", Dot, "_tcp">>, <<"_ipp", Dot, "_tcp", Dot, "local", Dot>>,
     <<"1", Dot, "in-addr", Dot, "arpa", Dot>>}

RawQuestions ==
    {Question(<<"alpha", Dot, "local">>, A),
     Question(<<"delta", Dot, "local">>, AAAA),
     Question(<<"_http", Dot, "_tcp", Dot, "local">>, PTR),
     Question(<<"1", Dot, "in-addr", Dot, "arpa">>, PTR)}

RawMessages ==
    {[questions |-> q, responses |-> <<>>] : q \in SeqsUpTo(RawQuestions, MaxQuestions)}

---------------------------------------------------------------------------
(* Initial states.                                                         *)

NoUpnp ==
    /\ m_networkAccessManager = 0
    /\ m_behaviors = {}
    /\ m_pendingReplies = <<>>
    /\ replies = <<>>
    /\ loaders = <<>>
    /\ destroyed = FALSE

InitResolver ==
    /\ m_domain = <<"local">>
    /\ m_queries = <<>>
    /\ m_hostNameQueries = <<>>
    /\ m_serviceQueries = <<>>
    /\ m_ownAddresses = <<>>
    /\ submitted = {}
    /\ call = NoCall
    /\ received = <<>> /\ decoded = <<>> /\ emitted = <<>> /\ sent = <<>>
    /\ NoUpnp

\* MDNS::Resolver::Resolver
InitMdns ==
    /\ resolverClass = "mdns"
    /\ m_sockets = createSockets
    /\ InitResolver

\* SSDP::Resolver::Resolver
InitSsdp ==
    /\ resolverClass = "ssdp"
    /\ m_sockets = <<>>
    /\ InitResolver

\* upnp::Resolver::Resolver(QObject *)
InitUpnp ==
    /\ resolverClass = "upnp"
    /\ m_sockets = <<>>
    /\ InitResolver

---------------------------------------------------------------------------
(* The receive path of an SSDP or an mDNS resolver with datagrams that may *)
(* echo a query.                                                           *)

InitMulticast == InitMdns \/ InitSsdp

NextMulticast ==
    \/ \E serviceType \in ServiceTypes : LookupService(ServiceLookupRequest(serviceType))
    \/ \E observed \in SUBSET LocalAddresses, bindable \in SUBSET LocalAddresses :
           OnTimeout(observed, bindable, Joined)
    \/ \E batch \in NonEmptySeqsUpTo(EchoDatagrams, MaxBatch) : OnDatagramReceived(batch)
    \/ \E hostName \in {<<"alpha">>, <<"beta">>} : LookupHostNames(<<hostName>>)
    \/ \E hostAddresses \in SeqsUpTo(LocalAddresses, MaxAddresses) :
           MdnsOnTimeout(hostAddresses, MdnsJoined)
    \/ /\ resolverClass = "mdns"
       /\ \E batch \in NonEmptySeqsUpTo(EchoDatagrams, MaxBatch) :
              \E hashOrder \in HashOrders(batch) : OnReadyRead(batch, hashOrder)

SpecMulticast == InitMulticast /\ [][NextMulticast]_vars

---------------------------------------------------------------------------
(* The SSDP resolver with the datagrams of peers.                          *)

StatusLines ==
    {<<"NOTIFY", "*", "HTTP/1.1">>, <<"M-SEARCH", "*", "HTTP/1.1">>,
     <<"SUBSCRIBE", "*", "HTTP/1.1">>, <<"HTTP/1.1", "200", "OK">>,
     <<"HTTP/1.1", "500", "Error">>, <<"HTTP/1.1", "404", "Not", "Found">>}

SsdpPayloads ==
    {[status |-> status, headers |-> NotifyHeaders(subType, <<DeviceLocation>>)] :
        status \in StatusLines, subType \in {"ssdp:alive", "ssdp:byebye"}}

SsdpDatagrams == {Datagram(data, "192.168.1.7", s_ssdpPort) : data \in SsdpPayloads}

NextSsdp ==
    \/ \E serviceType \in ServiceTypes : LookupService(ServiceLookupRequest(serviceType))
    \/ \E observed \in SUBSET {"192.168.1.2"} : OnTimeout(observed, LocalAddresses, Joined)
    \/ \E batch \in NonEmptySeqsUpTo(SsdpDatagrams, MaxBatch) : OnDatagramReceived(batch)

SpecSsdp == InitSsdp /\ [][NextSsdp]_vars

---------------------------------------------------------------------------
(* The UPnP resolver.                                                      *)

Behaviors == {LoadIcons, LoadServiceDescription}

AlternativeLocation == <<"http://192.168.1.7", "alt", "dd.xml">>

UpnpPayloads ==
    {[status |-> <<"NOTIFY", "*", "HTTP/1.1">>,
      headers |-> NotifyHeaders("ssdp:alive", <<DeviceLocation>>)],
     [status |-> <<"HTTP/1.1", "200", "OK">>,
      headers |-> NotifyHeaders("ssdp:alive", <<DeviceLocation, AlternativeLocation>>)]}

UpnpDatagrams == {Datagram(data, "192.168.1.7", s_ssdpPort) : data \in UpnpPayloads}

\* what a reply of the given kind may deliver
Bodies(kind) ==
    IF kind = "device" THEN {"", "plain", "rich"}
    ELSE IF kind = "icon" THEN {"png"} ELSE {"scpd"}

ReplyFinishedSomehow(reply) ==
    \E state \in {"ok", "error"} :
        \E body \in Bodies(replies[reply].kind) : ReplyFinished(reply, state, body)

NextUpnp ==
    \/ OnTimeout({"192.168.1.2"}, LocalAddresses, Joined)
    \/ \E batch \in NonEmptySeqsUpTo(UpnpDatagrams, MaxBatch) : OnDatagramReceived(batch)
    \/ \E newBehaviors \in SUBSET Behaviors : SetBehaviors(newBehaviors)
    \/ \E newManager \in {0, 1} : SetNetworkAccessManager(newManager)
    \/ \E reply \in 1..Len(replies) : ReplyFinishedSomehow(reply)
    \/ Destroy

SpecUpnp == InitUpnp /\ [][NextUpnp]_vars

\* every reply of the network access manager finishes
SpecUpnpFair ==
    /\ SpecUpnp
    /\ \A reply \in 1..MaxReplies :
           WF_vars(reply \in 1..Len(replies) /\ ReplyFinishedSomehow(reply))

---------------------------------------------------------------------------
(* The name lookups of the mDNS resolver on their own, and with raw        *)
(* lookups.                                                                *)

NextMdnsLookup ==
    \/ \E hostNames \in NonEmptySeqsUpTo(HostNameInputs, MaxNames) :
           LookupHostNames(hostNames)
    \/ \E serviceTypes \in NonEmptySeqsUpTo(ServiceTypeInputs, MaxNames) :
           LookupServices(serviceTypes)

SpecMdnsLookup == InitMdns /\ [][NextMdnsLookup]_vars

NextMdns ==
    \/ NextMdnsLookup
    \/ \E query \in RawMessages : Lookup(query)

SpecMdns == InitMdns /\ [][NextMdns]_vars

---------------------------------------------------------------------------
(* Claims about the name lookups of the mDNS resolver.                     *)

\* the questions of all stored query messages, in storage order
StoredQuestions ==
    LET F[i \in 0..Len(m_queries)] ==
            IF i = 0 THEN <<>> ELSE F[i - 1] \o m_queries[i].questions
    IN F[Len(m_queries)]

QuestionNames(questions) == [i \in 1..Len(questions) |-> Join(questions[i].name)]

IsReverseLookupName(name) == name[Len(name)] = "arpa"

\* C4 (as claimed): a lookupHostNames or lookupServices call returns true exactly
\* when one of its names, qualified with the configured domain, was not given to
\* an earlier call, and a call that returns false leaves the stored queries as
\* they were.
C4_TrueIffSomeNameIsNew ==
    [][/\ \A hostNames \in NonEmptySeqsUpTo(HostNameInputs, MaxNames) :
              LookupHostNames(hostNames) =>
                  /\ call'.result <=>
                         \E i \in 1..Len(hostNames) :
                             <<"host", qualifiedHostName(hostNames[i], m_domain)>>
                                 \notin submitted
                  /\ ~call'.result => m_queries' = m_queries
       /\ \A serviceTypes \in NonEmptySeqsUpTo(ServiceTypeInputs, MaxNames) :
              LookupServices(serviceTypes) =>
                  /\ call'.result <=>
                         \E i \in 1..Len(serviceTypes) :
                             <<"service", qualifiedHostName(serviceTypes[i], m_domain)>>
                                 \notin submitted
                  /\ ~call'.result => m_queries' = m_queries]_vars

C6_NoQuestionInTwoMessages ==
    \A i, j \in 1..Len(m_queries) :
        i < j => Range(m_queries[i].questions) \cap Range(m_queries[j].questions) = {}

---------------------------------------------------------------------------
(* Claims about the receive path and the query set.                        *)

\* the sender is an address the resolver sends from
IsOwnAddress(address) ==
    IF resolverClass = "mdns" THEN Contains(m_ownAddresses, address)
    ELSE address \in DOMAIN m_sockets

\* the datagram is byte-identical to a stored query and comes from an address
\* of the resolver on the protocol port
EchoesQuery(datagram) ==
    /\ \E q \in Range(m_queries) : datagram.data = q
    /\ IsOwnAddress(datagram.senderAddress)
    /\ datagram.senderPort = (IF resolverClass = "mdns" THEN s_mdnsPort ELSE s_ssdpPort)

CausedBy(i) == {k \in 1..Len(emitted) : "cause" \in DOMAIN emitted[k] /\ emitted[k].cause = i}

\* C1: a datagram drained by the read handler that is byte-identical to a
\* stored query, comes from an address of the resolver and from the protocol
\* port is not handed to the protocol decoder and causes no signal.
C1_OwnQueriesAreDropped ==
    \A i \in 1..Len(received) :
        EchoesQuery(received[i]) => ~Contains(decoded, i) /\ CausedBy(i) = {}

\* C1 witness: the handler dropped the echo of a query and, in the same batch,
\* decoded a peer's datagram that caused a signal
C1_Witness ==
    \E i, j \in 1..Len(received) :
        /\ EchoesQuery(received[i]) /\ ~Contains(decoded, i)
        /\ Contains(decoded, j) /\ CausedBy(j) # {}

\* C7: the query set never holds two equal entries, and a lookupService call
\* whose query equals a stored entry returns false and leaves the set as it was.
C7_AddQueryIsIdempotent ==
    /\ [](\A i, j \in 1..Len(m_queries) : m_queries[i] = m_queries[j] => i = j)
    /\ [][\A serviceType \in ServiceTypes :
              /\ LookupService(ServiceLookupRequest(serviceType))
              /\ \E q \in Range(m_queries) :
                     q = lookupServiceQuery(ServiceLookupRequest(serviceType))
              => ~call'.result /\ m_queries' = m_queries]_vars

\* C7 witness: a lookupService call was rejected while the set held two queries
C7_Witness ==
    /\ call.op = "lookupService" /\ ~call.result
    /\ Len(m_queries) = 2
    /\ m_queries[1] # m_queries[2]

\* the payload is a request whose verb is not NOTIFY, or a response whose
\* status code is not 200
IsUnsupportedMessage(data) ==
    /\ Len(data.status) = 3
    /\ \/ /\ data.status[1] \notin HttpProtocols
          /\ data.status[3] \in HttpProtocols
          /\ data.status[1] # "NOTIFY"
       \/ /\ data.status[1] \in HttpProtocols
          /\ data.status[2] # "200"

\* C8: a drained SSDP datagram that is a request with a verb other than NOTIFY
\* or a response with a status code other than 200 parses as Invalid and
\* causes neither serviceFound nor serviceLost.
C8_UnsupportedMessagesAreInvalid ==
    \A i \in 1..Len(received) :
        IsUnsupportedMessage(received[i].data) =>
            /\ NotifyMessageParse(received[i].data).type = "Invalid"
            /\ \A k \in CausedBy(i) : emitted[k].signal \notin {"serviceFound", "serviceLost"}

\* C8 witness: a response with status 500 that carries the headers of an alive
\* notification was decoded without a signal, next to a datagram that caused
\* serviceFound
C8_Witness ==
    \E i, j \in 1..Len(received) :
        /\ received[i].data.status = <<"HTTP/1.1", "500", "Error">>
        /\ Contains(decoded, i) /\ CausedBy(i) = {}
        /\ \E k \in CausedBy(j) : emitted[k].signal = "serviceFound"

---------------------------------------------------------------------------
(* Claims about the UPnP descriptor pipeline.                              *)

DeviceFoundSignals(log) == {k \in 1..Len(log) : log[k].signal = "deviceFound"}

Terminated(loader) ==
    \A i \in 1..Len(loaders[loader].m_pendingReplies) :
        replies[loaders[loader].m_pendingReplies[i]].state # "running"

\* the device was parsed with an HTTP client and a behavior, and none of its
\* sub-requests is running
Settled(loader) == loader \in 1..Len(loaders) /\ Terminated(loader)

\* deviceFound was emitted for the device
Found(loader) == loader \in 1..Len(loaders) /\ loaders[loader].finished > 0

\* C2 (as claimed): for every device parsed while an HTTP client and a behavior
\* are set, once all its sub-requests have terminated, also when none was
\* issued, deviceFound is eventually emitted for it, unless the resolver is
\* destroyed first.
C2_ParsedDevicesAreEventuallyFound ==
    \A loader \in 1..MaxLoaders : Settled(loader) ~> (Found(loader) \/ destroyed)

\* C3 (as claimed): the step that destroys the resolver emits no deviceFound.
C3_NoDeviceFoundOnDestruction ==
    [][destroyed' => DeviceFoundSignals(emitted') = {}]_vars

\* the field of the device record that a reply was to fill
DetailField(device, reply) ==
    IF reply.kind = "icon" THEN device.icons[reply.index].data
    ELSE device.services[reply.index].scpd

\* C9: the handler in which the last sub-request of a device terminates emits
\* deviceFound with the device's record, whether the sub-requests succeeded or
\* failed; in an emitted record the field of a failed sub-request is empty and
\* the field of a successful one is filled.
C9_FailedDetailsLeaveFieldsEmpty ==
    /\ [][\A loader \in 1..Len(loaders) :
              ~Terminated(loader) /\ Terminated(loader)' =>
                  \E k \in DeviceFoundSignals(emitted') :
                      /\ "loader" \in DOMAIN emitted'[k]
                      /\ emitted'[k].loader = loader]_vars
    /\ [](\A k \in DeviceFoundSignals(emitted) :
              "loader" \in DOMAIN emitted[k] =>
                  \A i \in 1..Len(loaders[emitted[k].loader].m_pendingReplies) :
                      LET reply == replies[loaders[emitted[k].loader].m_pendingReplies[i]]
                      IN /\ reply.state \in {"error", "aborted"}
                             => DetailField(Argument(emitted[k]), reply) = <<>>
                         /\ reply.state = "ok"
                             => DetailField(Argument(emitted[k]), reply) # <<>>)

\* C9 witness: deviceFound was emitted when a reply finished, for a device of
\* which one sub-request failed and the other succeeded
C9_Witness ==
    /\ call.op = "finished"
    /\ \E k \in DeviceFoundSignals(emitted) :
           /\ "loader" \in DOMAIN emitted[k]
           /\ \E i, j \in 1..Len(loaders[emitted[k].loader].m_pendingReplies) :
                  /\ replies[loaders[emitted[k].loader].m_pendingReplies[i]].state = "error"
                  /\ replies[loaders[emitted[k].loader].m_pendingReplies[j]].state = "ok"

\* the device record that carries nothing but a location, a type and a name
IsMinimalDevice(device, url, type, name) ==
    /\ device.url = url /\ device.deviceType = type /\ device.uniqueDeviceName = name
    /\ \A field \in DOMAIN device \ {"url", "deviceType", "uniqueDeviceName"} :
           device[field] = <<>>

\* C10: while no HTTP client is set, a read handler creates no request, and
\* every serviceFound it emits is followed at once by one deviceFound per
\* location, in order, each carrying nothing but the location, the service
\* type and the service name, and by no further deviceFound.
C10_DirectReportWithoutHttpClient ==
    [][call'.op = "onDatagramReceived" /\ m_networkAccessManager = 0 =>
          /\ replies' = replies
          /\ \A k \in 1..Len(emitted') :
                 emitted'[k].signal = "serviceFound" =>
                     LET service == Argument(emitted'[k])
                         n == Len(service.locations)
                     IN /\ k + n <= Len(emitted')
                        /\ \A j \in 1..n :
                               /\ emitted'[k + j].signal = "deviceFound"
                               /\ IsMinimalDevice(Argument(emitted'[k + j]), service.locations[j],
                                                  service.type, service.name)
                        /\ k + n < Len(emitted') =>
                               emitted'[k + n + 1].signal # "deviceFound"]_vars

\* C10 witness: without an HTTP client a service with two locations was found
\* and reported as two devices
C10_Witness ==
    /\ call.op = "onDatagramReceived"
    /\ m_networkAccessManager = 0
    /\ replies = <<>>
    /\ \E k \in 1..Len(emitted) :
           /\ emitted[k].signal = "serviceFound"
           /\ Len(Argument(emitted[k]).locations) = 2
           /\ k + 2 <= Len(emitted)
           /\ emitted[k + 1].signal = "deviceFound"
           /\ emitted[k + 2].signal = "deviceFound"
           /\ Argument(emitted[k + 1]).url # Argument(emitted[k + 2]).url

---------------------------------------------------------------------------
(* The wire format of mDNS messages (src/mdns/mdnsmessage.cpp).  A         *)
(* QByteArray is the sequence of its bytes, each a number in 0..255; the   *)
(* byte at offset o of data is data[o + 1].                                *)

SizeOfFields == 12

QuestionCountOffset == 4

AnswerCountOffset == 6

AuthorityCountOffset == 8

AdditionalCountOffset == 10

NetworkClassIN == 1

\* the value of a read that is not a value: the read was outside the array
OutOfBounds == -1

\* Entry::u8: m_data.at(offset)
Entry_u8(data, offset) ==
    IF offset >= 0 /\ offset < Len(data) THEN data[offset + 1] ELSE OutOfBounds

\* Entry::u16, Message::u16: readUInt16(m_data.constData() + offset)
Entry_u16And(hi, lo) == IF hi = OutOfBounds \/ lo = OutOfBounds THEN OutOfBounds ELSE hi * 256 + lo

Entry_u16(data, offset) == Entry_u16And(Entry_u8(data, offset), Entry_u8(data, offset + 1))

\* Entry::u32
Entry_u32And(hi, lo) == IF hi = OutOfBounds \/ lo = OutOfBounds THEN OutOfBounds ELSE hi * 65536 + lo

Entry_u32(data, offset) == Entry_u32And(Entry_u16(data, offset), Entry_u16(data, offset + 2))

\* QByteArray::mid
mid(data, pos, len) ==
    IF pos >= Len(data) THEN <<>>
    ELSE SubSeq(data, pos + 1, IF pos + len > Len(data) THEN Len(data) ELSE pos + len)

\* Label::isLabel, for the byte at the label's offset
Label_isLabel(byte) == byte \div 64 = 0

\* Label::isPointer
Label_isPointer(byte) == byte \div 64 = 3

\* Label::labelLength
Label_labelLength(byte) == IF Label_isLabel(byte) THEN byte ELSE 0

\* Label::size
Label_size(byte) ==
    IF Label_isLabel(byte) THEN 1 + byte ELSE IF Label_isPointer(byte) THEN 2 ELSE 1

\* Label::pointer: u16(offset()) & 0x3fff
Label_pointerOf(word) == IF word = OutOfBounds THEN OutOfBounds ELSE word % 16384

Label_pointer(data, offset) == Label_pointerOf(Entry_u16(data, offset))

\* Label::toByteArray
Label_toByteArray(data, offset) == mid(data, offset + 1, Label_labelLength(Entry_u8(data, offset)))

RECURSIVE Name_sizeFrom(_, _, _)
\* the loop of Name::size from the label at offset on, size being the sum so far
Name_sizeFrom(data, offset, size) ==
    IF Entry_u8(data, offset) = OutOfBounds THEN OutOfBounds
    ELSE IF Label_labelLength(Entry_u8(data, offset)) = 0
         THEN size + Label_size(Entry_u8(data, offset))
         ELSE Name_sizeFrom(data, offset + Label_size(Entry_u8(data, offset)),
                            size + Label_size(Entry_u8(data, offset)))

\* Name::size of Name{data, offset}
Name_size(data, offset) == Name_sizeFrom(data, offset, 0)

\* offset + n, where n may be the mark of a read outside the array
Plus(offset, n) ==
    IF offset = OutOfBounds \/ n = OutOfBounds THEN OutOfBounds ELSE offset + n

\* Question::fieldsOffset, Resource::fieldsOffset
fieldsOffset(data, offset) ==
    IF offset = OutOfBounds THEN OutOfBounds ELSE Plus(offset, Name_size(data, offset))

\* a u16 field of a question or a resource
Field_u16(data, offset) ==
    IF offset = OutOfBounds THEN OutOfBounds ELSE Entry_u16(data, offset)

\* Question::type, Resource::type
Entry_type(data, offset) == Field_u16(data, fieldsOffset(data, offset))

\* Question::nextOffset
Question_nextOffset(data, offset) == Plus(fieldsOffset(data, offset), 4)

\* Resource::dataSize
Resource_dataSize(data, offset) == Field_u16(data, Plus(fieldsOffset(data, offset), 8))

\* Resource::dataOffset
Resource_dataOffset(data, offset) == Plus(fieldsOffset(data, offset), 10)

\* Message::questionCount, answerCount of a received message
Message_questionCount(data) == Entry_u16(data, QuestionCountOffset)

Message_answerCount(data) == Entry_u16(data, AnswerCountOffset)

\* Message::responseCount
Message_responseCount(data) ==
    Plus(Plus(Message_answerCount(data), Entry_u16(data, AuthorityCountOffset)),
         Entry_u16(data, AdditionalCountOffset))

RECURSIVE Message_question(_, _)
\* Message::question(i) for 0 <= i: the offset of the question
Message_question(data, i) ==
    IF i = 0 THEN SizeOfFields
    ELSE IF Message_question(data, i - 1) = OutOfBounds THEN OutOfBounds
    ELSE Question_nextOffset(data, Message_question(data, i - 1))

\* Message::answer(0): the offset of the resource
Message_answer(data) ==
    IF Message_questionCount(data) = OutOfBounds THEN OutOfBounds
    ELSE IF Message_questionCount(data) > 0
    THEN IF Message_question(data, Message_questionCount(data) - 1) = OutOfBounds
         THEN OutOfBounds
         ELSE Question_nextOffset(data,
                  Message_question(data, Message_questionCount(data) - 1))
    ELSE SizeOfFields

\* the bytes at data + offset of which n are read, <<OutOfBounds>> when they
\* are not all inside the array
bytesAt(data, offset, n) ==
    IF offset = OutOfBounds \/ offset + n > Len(data) THEN <<OutOfBounds>>
    ELSE SubSeq(data, offset + 1, offset + n)

\* Resource::address: the bytes of the address, <<>> for QHostAddress{}
Resource_address(data, offset) ==
    IF Entry_type(data, offset) = OutOfBounds \/ Resource_dataSize(data, offset) = OutOfBounds
    THEN <<OutOfBounds>>
    ELSE IF Entry_type(data, offset) = A /\ Resource_dataSize(data, offset) = 4
    THEN bytesAt(data, Resource_dataOffset(data, offset), 4)
    ELSE IF Entry_type(data, offset) = AAAA /\ Resource_dataSize(data, offset) = 16
    THEN bytesAt(data, Resource_dataOffset(data, offset), 16)
    ELSE <<>>

\* the positions of sep in bytes
Separators(bytes, sep) == {i \in 1..Len(bytes) : bytes[i] = sep}

\* the position of the k-th sep in bytes; 0 before the first part and
\* Len(bytes) + 1 behind the last
SeparatorAt(bytes, sep, k) ==
    IF k = 0 THEN 0
    ELSE IF k > Cardinality(Separators(bytes, sep)) THEN Len(bytes) + 1
    ELSE CHOOSE i \in Separators(bytes, sep) :
             Cardinality({j \in Separators(bytes, sep) : j < i}) = k - 1

\* QByteArray::split(sep)
split(bytes, sep) ==
    [k \in 1..(Cardinality(Separators(bytes, sep)) + 1) |->
        SubSeq(bytes, SeparatorAt(bytes, sep, k - 1) + 1, SeparatorAt(bytes, sep, k) - 1)]

RECURSIVE makeByteArray(_)
\* makeByteArray(makeLabelList(strings)) in a build without assertions: the
\* length of a string is cast to char
makeByteArray(strings) ==
    IF strings = <<>> THEN <<0>>
    ELSE <<Len(Head(strings)) % 256>> \o Head(strings) \o makeByteArray(Tail(strings))

\* the assertions of makeLabelList
makeLabelListAsserts(strings) ==
    \A i \in 1..Len(strings) : Len(strings[i]) > 0 /\ Len(strings[i]) < 64

\* Question::Question(QByteArray name, Message::Type type): data()
Question_data(name, type) ==
    makeByteArray(split(name, 46))
        \o <<type \div 256, type % 256, 0, NetworkClassIN % 128>>

\* Message::Message(): m_data
Message_data == [i \in 1..SizeOfFields |-> 0]

\* Message::setU16
Message_setU16(data, offset, value) ==
    [data EXCEPT ![offset + 1] = value \div 256, ![offset + 2] = value % 256]

\* Message::addQuestion without its setU16
Message_appendQuestion(data, question) == data \o question

\* Message::addQuestion on a message without resources: data() afterwards
Message_addQuestion(data, question) ==
    Message_setU16(data \o question, QuestionCountOffset, Message_questionCount(data) + 1)

---------------------------------------------------------------------------
(* The codec at work: a message is built or received, and its accessors    *)
(* are called.  received is the message's byte array, call the accessor    *)
(* that ran last.  Name::toByteArray runs label by label: cursor is the    *)
(* offset of the label it looks at, prefix what the calls it is nested in  *)
(* have collected, name what the innermost call has collected, follows the *)
(* depth of the nesting, which the model counts up to MaxFollows.          *)

MaxFollows == 3        \* nested Name::toByteArray calls that are counted

LabelLimit == 64

codecVars == <<resolverClass, m_domain, m_queries, m_hostNameQueries, m_serviceQueries,
               m_ownAddresses, m_sockets, submitted, decoded, emitted, sent>>

\* what a read outside the array can do: the assertion of QByteArray::at stops
\* the program, or the read delivers whatever the memory holds
UndefinedOutcomes == {"abort", "garbage"}

\* the call record of an accessor that returned value
Returned(op, value) == [op |-> op, outcome |-> "value", outOfBounds |-> FALSE, result |-> value]

\* the call records of an accessor that read outside the array
Undefined(op) ==
    {[op |-> op, outcome |-> o, outOfBounds |-> TRUE, result |-> <<>>] : o \in UndefinedOutcomes}

\* Name::toByteArray has been called and has not returned
Decoding == call.op = "toByteArray" /\ call.outcome = "running"

\* Question{name, type} is built and added to Message{}
BuildMessage(name, type) ==
    /\ ~Decoding
    /\ \/ /\ received' = Message_addQuestion(Message_data, Question_data(name, type))
          /\ call' = Returned("addQuestion", <<name, type>>)
       \/ /\ ~makeLabelListAsserts(split(name, 46))
          /\ received' = <<>>
          /\ call' = [op |-> "addQuestion", outcome |-> "abort", outOfBounds |-> FALSE,
                      result |-> <<>>]
    /\ UNCHANGED codecVars
    /\ UNCHANGED upnpVars

\* const MDNS::Message message{received.data()}
ReceiveMessage(data) ==
    /\ ~Decoding
    /\ received' = data
    /\ call' = Returned("Message", <<>>)
    /\ UNCHANGED codecVars
    /\ UNCHANGED upnpVars

\* the accessors of a message, of its first question and of its first answer
Accessors == {"questionCount", "responseCount", "question.type", "answer.address"}

AccessorValue(op, data) ==
    CASE op = "questionCount" -> <<Message_questionCount(data)>>
      [] op = "responseCount" -> <<Message_responseCount(data)>>
      [] op = "question.type" -> <<Entry_type(data, Message_question(data, 0))>>
      [] OTHER -> IF Message_answer(data) = OutOfBounds THEN <<OutOfBounds>>
                  ELSE Resource_address(data, Message_answer(data))

Accessed(op, value) ==
    /\ call' \in (IF value = <<OutOfBounds>> THEN Undefined(op) ELSE {Returned(op, value)})
    /\ UNCHANGED received
    /\ UNCHANGED codecVars
    /\ UNCHANGED upnpVars

\* the caller asks for the first question or answer when the header announces one
Announced(op, data) ==
    /\ op = "question.type" => Message_questionCount(data) > 0
    /\ op = "answer.address" => Message_answerCount(data) > 0

Access(op) ==
    /\ ~Decoding
    /\ received # <<>>
    /\ Announced(op, received)
    /\ Accessed(op, AccessorValue(op, received))

\* the offsets of the names of the first question and of the first answer
NameOffsets(data) ==
    (IF Message_questionCount(data) > 0 THEN {SizeOfFields} ELSE {})
        \cup (IF Message_answerCount(data) > 0 /\ Message_answer(data) # OutOfBounds
              THEN {Message_answer(data)} ELSE {})

\* Name{data, offset}.toByteArray() is called
Name_toByteArray(offset) ==
    /\ ~Decoding
    /\ received # <<>>
    /\ offset \in NameOffsets(received)
    /\ call' = [op |-> "toByteArray", outcome |-> "running", outOfBounds |-> FALSE,
                result |-> <<>>, offset |-> offset, cursor |-> offset, follows |-> 0,
                prefix |-> <<>>, name |-> <<>>]
    /\ UNCHANGED received
    /\ UNCHANGED codecVars
    /\ UNCHANGED upnpVars

\* name.append('.') when name is not empty
WithDot(name) == IF name = <<>> THEN name ELSE Append(name, 46)

\* the call record after the label with the given first byte, pointer being
\* Label::pointer of it
AfterLabel(c, data, byte, pointer) ==
    IF byte = OutOfBounds \/ (Label_isPointer(byte) /\ pointer = OutOfBounds)
    THEN {[c EXCEPT !.outcome = o, !.outOfBounds = TRUE] : o \in UndefinedOutcomes}
    ELSE IF Label_isPointer(byte)
    THEN {[c EXCEPT !.cursor = pointer,
                    !.follows = IF @ < MaxFollows THEN @ + 1 ELSE @,
                    !.prefix = @ \o WithDot(c.name),
                    !.name = <<>>]}
    ELSE IF Label_labelLength(byte) = 0
    THEN {[c EXCEPT !.outcome = "value", !.result = c.prefix \o c.name]}
    ELSE {[c EXCEPT !.cursor = @ + Label_size(byte),
                    !.name = WithDot(@) \o Label_toByteArray(data, c.cursor)]}

\* Name::toByteArray looks at the next label
Name_toByteArrayStep ==
    /\ call.op = "toByteArray"
    /\ call.outcome = "running"
    /\ call' \in AfterLabel(call, received, Entry_u8(received, call.cursor),
                            Label_pointer(received, call.cursor))
    /\ UNCHANGED received
    /\ UNCHANGED codecVars
    /\ UNCHANGED upnpVars

\* the twelve bytes of a message's header
Header(questions, answers) == <<0, 0, 0, 0, 0, questions, 0, answers, 0, 0, 0, 0>>

\* the question (a, A)
QuestionA == <<1, 97, 0, 0, A, 0, NetworkClassIN>>

\* an A resource whose name is a pointer to the given offset
AnswerA(pointer) == <<192, pointer, 0, A, 0, NetworkClassIN, 0, 0, 0, 60, 0, 4, 10, 0, 0, 1>>

ReceivedMessages ==
    { \* a response whose name points back at the question's name
      Header(1, 1) \o QuestionA \o AnswerA(SizeOfFields),
      \* the same response, cut off within the address
      SubSeq(Header(1, 1) \o QuestionA \o AnswerA(SizeOfFields), 1, 33),
      \* a question whose name points forward at a name behind it
      Header(1, 0) \o <<192, 18, 0, A, 0, NetworkClassIN, 1, 97, 0>>,
      \* a question whose name is a pointer to a pointer back to it
      Header(1, 0) \o <<192, 14, 192, 12>>,
      \* a question whose label is longer than the rest of the message
      Header(1, 0) \o <<5, 97, 98>>,
      \* a header that announces a question and an answer that are not there
      Header(1, 1),
      \* a message shorter than a header
      <<0, 0, 0, 0, 0>> }

LongLabel(n) == [i \in 1..n |-> 97]

\* a, a.b, a label of 63 bytes and a label of 64 bytes
BuiltNames == {<<97>>, <<97, 46, 98>>, LongLabel(LabelLimit - 1), LongLabel(LabelLimit)}

BuiltTypes == {A, AAAA, PTR}

NextCodec ==
    \/ \E name \in BuiltNames, type \in BuiltTypes : BuildMessage(name, type)
    \/ \E data \in ReceivedMessages : ReceiveMessage(data)
    \/ \E op \in Accessors : Access(op)
    \/ \E offset \in 0..40 : Name_toByteArray(offset)
    \/ Name_toByteArrayStep

SpecCodec == InitMdns /\ [][NextCodec]_vars

\* a running Name::toByteArray goes on
SpecCodecFair == SpecCodec /\ WF_vars(Name_toByteArrayStep)

---------------------------------------------------------------------------
(* Claims about the codec.                                                 *)

\* C11 (as claimed): decoding the name at a resource offset of a received
\* message terminates, whatever its compression pointers point at.
C11_NameDecodingTerminates == Decoding ~> ~Decoding

\* C12 (as claimed): no accessor reads a byte outside the message; on a
\* malformed message it returns a value.
C12_NoReadOutsideTheMessage ==
    call.op \in Accessors \cup {"toByteArray"} =>
        ~call.outOfBounds /\ call.outcome \in {"value", "running"}

\* the message that is built by adding the question (name, type) to Message{}
BuiltMessage(name, type) == Message_addQuestion(Message_data, Question_data(name, type))

\* received has one question and no resources, the question has the given type
\* and a finished decoding of its name has given name
DecodesTo(name, type) ==
    /\ Message_questionCount(received) = 1
    /\ Message_responseCount(received) = 0
    /\ Entry_type(received, Message_question(received, 0)) = type
    /\ call.op = "toByteArray" /\ call.offset = SizeOfFields /\ call.outcome # "running"
           => call.outcome = "value" /\ call.result = name

\* C13 (as claimed): for every name without empty labels, building the message
\* with the single question (name, type) succeeds and the message decodes to
\* one question with that name and type and to no resources.
C13_QuestionRoundTrip ==
    /\ call.op = "addQuestion" => call.outcome = "value"
    /\ \A name \in BuiltNames, type \in BuiltTypes :
           received = BuiltMessage(name, type) => DecodesTo(name, type)

\* C13 (amended): the same for every name whose labels have 1 to 63 bytes.
C13_QuestionRoundTripOfShortLabels ==
    \A name \in BuiltNames, type \in BuiltTypes :
        makeLabelListAsserts(split(name, 46)) =>
            /\ call.op = "addQuestion" /\ call.result = <<name, type>>
                   => call.outcome = "value"
            /\ received = BuiltMessage(name, type) => DecodesTo(name, type)

\* C13 witness: the name of the question (a.b, PTR) of a built message was
\* decoded, and so was a name with a label of 63 bytes
C13_Witness ==
    /\ call.op = "toByteArray" /\ call.outcome = "value"
    /\ \/ received = BuiltMessage(<<97, 46, 98>>, PTR) /\ call.result = <<97, 46, 98>>
       \/ /\ received = BuiltMessage(LongLabel(LabelLimit - 1), A)
          /\ call.result = LongLabel(LabelLimit - 1)

---------------------------------------------------------------------------
(* The two name conversions of the mDNS resolver, applied to names of a    *)
(* few tokens, and lookups of one name in its different forms.             *)

MaxTokens == 5         \* tokens of a name the conversions are applied to

NameTokens == {"h", Dot, "local"}

NameInputs == SeqsUpTo(NameTokens, MaxTokens)

\* the host h without and with the domain, and with a trailing dot
NameForms ==
    {<<"h">>, <<"h", Dot, "local">>, <<"h", Dot, "local", Dot>>, <<"h", Dot>>}

namesVars == <<resolverClass, m_domain, m_queries, m_hostNameQueries, m_serviceQueries,
               m_ownAddresses, m_sockets, submitted, received, decoded, emitted, sent>>

\* qualifiedHostName(name, m_domain), as the lookups call it
Qualify(name) ==
    /\ resolverClass = "mdns"
    /\ call' = [op |-> "qualifiedHostName", name |-> name,
                result |-> qualifiedHostName(name, m_domain)]
    /\ UNCHANGED namesVars
    /\ UNCHANGED upnpVars

\* a name is reported as normalizedHostName(name, m_domain) and the reported
\* name qualified again
QualifyNormalized(name) ==
    /\ resolverClass = "mdns"
    /\ call' = [op |-> "qualifiedHostName(normalizedHostName)", name |-> name,
                normalized |-> normalizedHostName(name, m_domain),
                result |-> qualifiedHostName(normalizedHostName(name, m_domain),
                                             m_domain)]
    /\ UNCHANGED namesVars
    /\ UNCHANGED upnpVars

\* the conversions as functions of the name
NextNames ==
    \/ \E name \in NameInputs : Qualify(name)
    \/ \E name \in NameInputs : QualifyNormalized(name)

SpecNames == InitMdns /\ [][NextNames]_vars

\* lookups of one name at a time, in the forms of the host h
NextNameForms ==
    \/ \E name \in NameForms : Qualify(name)
    \/ \E name \in NameForms : LookupHostNames(<<name>>)
    \/ \E name \in NameForms : LookupServices(<<name>>)

SpecNameForms == InitMdns /\ [][NextNameForms]_vars

---------------------------------------------------------------------------
(* Claims about the qualification of names.                                *)

EndsWithDomain(name) == EndsWith(name, <<Dot>> \o m_domain)

\* C14 (as claimed): for every name that ends with .<domain> and has no trailing
\* dot, qualifying the normalized (unqualified) form of the name gives the name
C14_QualifyUndoesNormalize ==
    (/\ call.op = "qualifiedHostName(normalizedHostName)"
     /\ EndsWithDomain(call.name)
     /\ ~EndsWith(call.name, <<Dot>>))
    => call.result = call.name

\* the forms h, h.<domain> and h.<domain>. of a name h without dots
ThreeForms == {<<"h">>, <<"h", Dot>> \o m_domain, <<"h", Dot>> \o m_domain \o <<Dot>>}

\* a lookup of one of the three forms, made after a lookup of one of them,
\* returns false
SecondLookupReturnsFalse ==
    \A name \in ThreeForms :
        /\ (/\ LookupHostNames(<<name>>)
            /\ <<"host", <<"h", Dot>> \o m_domain>> \in submitted
            => call'.result = FALSE)
        /\ (/\ LookupServices(<<name>>)
            /\ <<"service", <<"h", Dot>> \o m_domain>> \in submitted
            => call'.result = FALSE)

\* C15 (as claimed): qualifying strips one trailing dot if there is one and
\* appends .<domain> exactly when the name does not end with the domain yet, so
\* that a lookup of h, h.<domain> or h.<domain>. after a lookup of another of
\* them returns false
C15_QualifiedUnlessEndingWithDomain ==
    [][/\ call'.op = "qualifiedHostName"
          => call'.result = strippedAndQualified(call'.name, m_domain)
       /\ SecondLookupReturnsFalse]_vars

\* C15 (amended): qualifying removes the trailing dot of a name that has one and
\* appends nothing to it; to a name without trailing dot it appends .<domain>
\* exactly when the name does not end with it; and a lookup of h, h.<domain> or
\* h.<domain>. after a lookup of another of them returns false
C15_QualifiedUnlessDotOrDomain ==
    [][/\ call'.op = "qualifiedHostName"
          => IF EndsWith(call'.name, <<Dot>>)
             THEN call'.result \o <<Dot>> = call'.name
             ELSE IF EndsWithDomain(call'.name)
             THEN call'.result = call'.name
             ELSE call'.result = call'.name \o <<Dot>> \o m_domain
       /\ SecondLookupReturnsFalse]_vars

C15_Witness ==
    /\ call.op = "lookupHostNames"
    /\ call.result = FALSE
    /\ m_hostNameQueries = << <<"h", Dot>> \o m_domain >>
    /\ m_serviceQueries = << <<"h", Dot>> \o m_domain >>

---------------------------------------------------------------------------
(* The HTTP helpers on byte arrays: CaseInsensitive<QByteArray> and the    *)
(* computation of an expiry date.  A QDateTime is the number of seconds    *)
(* since 1994-11-06T00:00:00Z; InvalidDateTime is QDateTime{}.             *)

InvalidDateTime == -1

\* QtMiscUtils::toAsciiLower, by which QByteArray::compare ignores the case
toAsciiLower(byte) == IF byte \in 65..90 THEN byte + 32 ELSE byte

\* QByteArray::operator==
QByteArray_equals(l, r) == l = r

\* CaseInsensitive::operator==: l.compare(r, Qt::CaseInsensitive) == 0
CaseInsensitive_equals(l, r) ==
    /\ Len(l) = Len(r)
    /\ \A i \in 1..Len(l) : toAsciiLower(l[i]) = toAsciiLower(r[i])

\* CaseInsensitive::startsWith for a type without case insensitive startsWith
CaseInsensitive_startsWith(text, r) ==
    IF Len(text) < Len(r) THEN FALSE
    ELSE CaseInsensitive_equals(SubSeq(text, 1, Len(r)), r)

\* QList::contains(CaseInsensitive{name})
CaseInsensitive_contains(list, name) ==
    \E i \in 1..Len(list) : CaseInsensitive_equals(list[i], name)

\* "no-cache"
s_cacheControlNoCache == <<110, 111, 45, 99, 97, 99, 104, 101>>

\* "max-age="
s_cacheControlMaxAge == <<109, 97, 120, 45, 97, 103, 101, 61>>

\* findPrefix: the position of the first token that starts with prefix, 0 for
\* container.cend()
findPrefix(container, prefix) ==
    IF \E i \in 1..Len(container) : CaseInsensitive_startsWith(container[i], prefix)
    THEN CHOOSE i \in 1..Len(container) :
             /\ CaseInsensitive_startsWith(container[i], prefix)
             /\ \A j \in 1..(i - 1) : ~CaseInsensitive_startsWith(container[j], prefix)
    ELSE 0

suffixView(text, offset) == SubSeq(text, offset + 1, Len(text))

IsDigit(byte) == byte \in 48..57

\* the number a run of decimal digits denotes
DigitsValue(text) ==
    LET F[i \in 0..Len(text)] == IF i = 0 THEN 0 ELSE 10 * F[i - 1] + (text[i] - 48)
    IN F[Len(text)]

\* core::parse<uint> of a text of letters and of at most nine digits, whose
\* number a uint holds; -1 is std::nullopt
core_parse_uint(text) ==
    IF text # <<>> /\ Len(text) <= 9 /\ (\A i \in 1..Len(text) : IsDigit(text[i]))
    THEN DigitsValue(text) ELSE -1

\* addSecs that sets the seconds of the day
setSecs(dateTime, seconds) ==
    IF dateTime = InvalidDateTime THEN InvalidDateTime ELSE seconds

\* QDateTime::addSecs
addSecs(dateTime, seconds) ==
    IF dateTime = InvalidDateTime THEN InvalidDateTime ELSE dateTime + seconds

\* "Sun, 06 Nov 1994 "
Rfc1123Date ==
    <<83, 117, 110, 44, 32, 48, 54, 32, 78, 111, 118, 32, 49, 57, 57, 52, 32>>

\* " GMT"
Rfc1123Zone == <<32, 71, 77, 84>>

\* a field of two decimal digits below limit, -1 otherwise
TwoDigits(text, limit) ==
    IF Len(text) = 2 /\ IsDigit(text[1]) /\ IsDigit(text[2]) /\ DigitsValue(text) < limit
    THEN DigitsValue(text) ELSE -1

\* parseDateTime for a text in the format s_rfc1123DateFormat with the date
\* 6 November 1994, and for a text that is no date in any format
parseDateTime(text) ==
    IF /\ Len(text) = Len(Rfc1123Date) + 8 + Len(Rfc1123Zone)
       /\ SubSeq(text, 1, Len(Rfc1123Date)) = Rfc1123Date
       /\ SubSeq(text, Len(text) - Len(Rfc1123Zone) + 1, Len(text)) = Rfc1123Zone
       /\ text[Len(Rfc1123Date) + 3] = 58
       /\ text[Len(Rfc1123Date) + 6] = 58
    THEN LET time == SubSeq(text, Len(Rfc1123Date) + 1, Len(Rfc1123Date) + 8)
             hh == TwoDigits(SubSeq(time, 1, 2), 24)
             mm == TwoDigits(SubSeq(time, 4, 5), 60)
             ss == TwoDigits(SubSeq(time, 7, 8), 60)
         IN IF hh < 0 \/ mm < 0 \/ ss < 0 THEN InvalidDateTime
            ELSE 3600 * hh + 60 * mm + ss
    ELSE InvalidDateTime

\* QByteArray::replace(' ', ByteArrayView{})
withoutSpaces(text) == SelectSeq(text, LAMBDA byte : byte # 32)

\* expiryDateTime with max-age looked at before no-cache
expiryDateTimeByMaxAge(cacheControl, expires, now) ==
    LET cacheControlList == split(withoutSpaces(cacheControl), 44)
        maxAge == findPrefix(cacheControlList, s_cacheControlMaxAge)
        seconds == IF maxAge = 0 THEN -1
                   ELSE core_parse_uint(suffixView(cacheControlList[maxAge],
                                                   Len(s_cacheControlMaxAge)))
    IN IF seconds >= 0 THEN addSecs(now, seconds)
       ELSE IF CaseInsensitive_contains(cacheControlList, s_cacheControlNoCache) THEN now
       ELSE IF expires # <<>> THEN parseDateTime(expires)
       ELSE InvalidDateTime

\* http::expiryDateTime(cacheControl, expires, now)
expiryDateTime(cacheControl, expires, now) ==
    LET cacheControlList == split(withoutSpaces(cacheControl), 44)
        maxAge == findPrefix(cacheControlList, s_cacheControlMaxAge)
        seconds == IF maxAge = 0 THEN -1
                   ELSE core_parse_uint(suffixView(cacheControlList[maxAge],
                                                   Len(s_cacheControlMaxAge)))
    IN IF CaseInsensitive_contains(cacheControlList, s_cacheControlNoCache) THEN now
       ELSE IF seconds >= 0 THEN addSecs(now, seconds)
       ELSE IF expires # <<>> THEN parseDateTime(expires)
       ELSE InvalidDateTime

---------------------------------------------------------------------------
(* Calls of expiryDateTime with Cache-Control values of a few directives.  *)

MaxDirectives == 2     \* directives of a Cache-Control value
MaxTicks == 2          \* minutes by which the time of a call is behind TestNow

\* 08:49:37, the time of day of now in testExpiryDateTime_data
TestNow == 31777

\* "no-cache"
NoCache == <<110, 111, 45, 99, 97, 99, 104, 101>>

\* "No-Cache"
NoCacheMixed == <<78, 111, 45, 67, 97, 99, 104, 101>>

\* "max-age=60"
MaxAge60 == <<109, 97, 120, 45, 97, 103, 101, 61, 54, 48>>

\* "Max-Age=7"
MaxAgeMixed == <<77, 97, 120, 45, 65, 103, 101, 61, 55>>

\* "max-age = 5"
MaxAgeSpaced == <<109, 97, 120, 45, 97, 103, 101, 32, 61, 32, 53>>

\* "max-age=x"
MaxAgeNoNumber == <<109, 97, 120, 45, 97, 103, 101, 61, 120>>

\* "public"
Public == <<112, 117, 98, 108, 105, 99>>

\* "Sun, 06 Nov 1994 08:54:37 GMT"
ExpiresText ==
    <<83, 117, 110, 44, 32, 48, 54, 32, 78, 111, 118, 32, 49, 57, 57, 52, 32,
      48, 56, 58, 53, 52, 58, 51, 55, 32, 71, 77, 84>>

\* "tomorrow"
NoDateText == <<116, 111, 109, 111, 114, 114, 111, 119>>

Directives ==
    {NoCache, NoCacheMixed, MaxAge60, MaxAgeMixed, MaxAgeSpaced, MaxAgeNoNumber, Public}

MaxAgeDirectives == {MaxAge60, MaxAgeMixed, MaxAgeSpaced, MaxAgeNoNumber}

\* lists of directives with at most one max-age directive
DirectiveLists ==
    {list \in SeqsUpTo(Directives, MaxDirectives) :
        Cardinality({i \in 1..Len(list) : list[i] \in MaxAgeDirectives}) <= 1}

\* the header value: the directives separated by a comma and a space
CacheControlOf(list) ==
    LET F[i \in 0..Len(list)] ==
            IF i = 0 THEN <<>>
            ELSE IF i = 1 THEN list[1]
            ELSE F[i - 1] \o <<44, 32>> \o list[i]
    IN F[Len(list)]

ExpiresTexts == {<<>>, ExpiresText, NoDateText}

Nows == {TestNow + 60 * tick : tick \in 0..MaxTicks}

httpVars == <<resolverClass, m_domain, m_queries, m_hostNameQueries, m_serviceQueries,
              m_ownAddresses, m_sockets, submitted, received, decoded, emitted, sent>>

ExpiryDateTime(list, expires, now) ==
    /\ call' = [op |-> "expiryDateTime", directives |-> list,
                cacheControl |-> CacheControlOf(list), expires |-> expires, now |-> now,
                result |-> expiryDateTime(CacheControlOf(list), expires, now)]
    /\ UNCHANGED httpVars
    /\ UNCHANGED upnpVars

NextExpiry ==
    \E list \in DirectiveLists, expires \in ExpiresTexts, now \in Nows :
        ExpiryDateTime(list, expires, now)

SpecExpiry == InitSsdp /\ [][NextExpiry]_vars

---------------------------------------------------------------------------
(* Claims about the expiry date.                                           *)

\* the seconds a max-age directive of the inputs names
MaxAgeSeconds(directive) ==
    CASE directive = MaxAge60 -> 60
      [] directive = MaxAgeMixed -> 7
      [] directive = MaxAgeSpaced -> 5
      [] OTHER -> -1

HasNoCache(list) == \E i \in 1..Len(list) : list[i] \in {NoCache, NoCacheMixed}

HasMaxAge(list) == \E i \in 1..Len(list) : MaxAgeSeconds(list[i]) >= 0

MaxAgeOf(list) == MaxAgeSeconds(list[CHOOSE i \in 1..Len(list) : MaxAgeSeconds(list[i]) >= 0])

\* C16 (as claimed): the expiry is now if Cache-Control contains no-cache, even
\* with max-age and Expires present; otherwise now + N seconds if Cache-Control
\* contains max-age=N; otherwise the parsed date of Expires if there is an
\* Expires header; otherwise there is no expiry
C16_ExpiryPrecedence ==
    call.op = "expiryDateTime" =>
        call.result =
            IF HasNoCache(call.directives) THEN call.now
            ELSE IF HasMaxAge(call.directives) THEN call.now + MaxAgeOf(call.directives)
            ELSE IF call.expires # <<>> THEN parseDateTime(call.expires)
            ELSE InvalidDateTime

C16_Witness ==
    /\ call.op = "expiryDateTime"
    /\ call.directives = <<MaxAge60, NoCache>>
    /\ call.expires = ExpiresText
    /\ call.result = call.now

\* C17 (as claimed): a later evaluation of the same headers gives no earlier
\* expiry, whenever the expiry is defined; the expiry is the evaluation time if
\* Cache-Control is no-cache and the evaluation time plus maxAge seconds if
\* Cache-Control is max-age=maxAge
C17_ExpiryMonotoneInNow ==
    [][/\ (/\ call.op = "expiryDateTime"
           /\ call'.op = "expiryDateTime"
           /\ call'.cacheControl = call.cacheControl
           /\ call'.expires = call.expires
           /\ call'.now >= call.now
           /\ call.result # InvalidDateTime)
          => call'.result >= call.result
       /\ call'.op = "expiryDateTime" /\ call'.cacheControl = NoCache
          => call'.result = call'.now
       /\ \A directive \in {MaxAge60, MaxAgeMixed, MaxAgeSpaced} :
              call'.op = "expiryDateTime" /\ call'.cacheControl = directive
              => call'.result = call'.now + MaxAgeSeconds(directive)]_vars

C17_Witness ==
    /\ call.op = "expiryDateTime"
    /\ call.cacheControl = MaxAge60
    /\ call.now > TestNow
    /\ call.result = call.now + 60

---------------------------------------------------------------------------
(* Comparisons of header names: CaseInsensitive<QByteArray> against names  *)
(* made of the letters A and a and of the two characters @ and `, which    *)
(* differ from each other as A differs from a.                             *)

MaxNameLength == 2     \* bytes of a name that is looked up

NameBytes == {65, 97, 64, 96}

LookupNames == SeqsUpTo(NameBytes, MaxNameLength)

\* the names under which headers were inserted
InsertedNames == {<<65>>, <<97, 65>>, <<65, 97>>, <<97, 96>>, <<64, 97>>}

\* the positions of the headers that name == key selects in the loop of
\* NotifyMessage::parse over message.headers()
headersNamed(headers, key) ==
    LET F[i \in 0..Len(headers)] ==
            IF i = 0 THEN <<>>
            ELSE IF CaseInsensitive_equals(headers[i], key) THEN Append(F[i - 1], i)
            ELSE F[i - 1]
    IN F[Len(headers)]

\* name == key for a header name of the list
Equals(name, key) ==
    /\ call' = [op |-> "operator==", name |-> name, key |-> key,
                result |-> CaseInsensitive_equals(name, key)]
    /\ UNCHANGED httpVars
    /\ UNCHANGED upnpVars

\* headers are inserted under first and second and looked up by key
LookupHeader(first, second, key) ==
    /\ call' = [op |-> "headers", headers |-> <<first, second>>, key |-> key,
                result |-> headersNamed(<<first, second>>, key)]
    /\ UNCHANGED httpVars
    /\ UNCHANGED upnpVars

NextCaseInsensitive ==
    \/ \E name \in InsertedNames, key \in LookupNames : Equals(name, key)
    \/ \E first \in InsertedNames, second \in InsertedNames, key \in LookupNames :
           LookupHeader(first, second, key)

SpecCaseInsensitive == InitSsdp /\ [][NextCaseInsensitive]_vars

---------------------------------------------------------------------------
(* Claims about the comparison of header names.                            *)

IsLetter(byte) == byte \in 65..90 \/ byte \in 97..122

\* the two bytes are the same character or the two cases of one letter
SameCharacterButCase(l, r) ==
    \/ l = r
    \/ IsLetter(l) /\ IsLetter(r) /\ (l = r + 32 \/ r = l + 32)

DiffersInCaseOnly(l, r) ==
    /\ Len(l) = Len(r)
    /\ \A i \in 1..Len(l) : SameCharacterButCase(l[i], r[i])

\* C18 (as claimed): a lookup by any case variant of a name matches the entries
\* inserted under any case variant of the name and no entry whose name differs
\* in more than letter case
C18_HeaderNamesIgnoreCase ==
    /\ call.op = "operator==" => call.result = DiffersInCaseOnly(call.name, call.key)
    /\ call.op = "headers"
       => \A i \in 1..Len(call.headers) :
              (\E k \in 1..Len(call.result) : call.result[k] = i)
                  <=> DiffersInCaseOnly(call.headers[i], call.key)

C18_Witness ==
    /\ call.op = "headers"
    /\ call.headers = <<<<97, 65>>, <<97, 96>>>>
    /\ call.key = <<65, 97>>
    /\ call.result = <<1>>

---------------------------------------------------------------------------
(* SSDP::NotifyMessage::parse(data, now) with the expiry, for messages     *)
(* that differ in the status line and in the headers they have.  The       *)
(* values of Cache-Control and Expires are byte arrays.                    *)

\* the value the loop over message.headers() leaves in the local variable it
\* assigns for headers named key
lastHeaderValue(headers, key) ==
    LET F[i \in 0..Len(headers)] ==
            IF i = 0 THEN <<>>
            ELSE IF CaseInsensitiveEqual(headers[i].name, key) THEN headers[i].value
            ELSE F[i - 1]
    IN F[Len(headers)]

\* response.expiry
NotifyExpiry(type, headers, now) ==
    IF type = "Invalid" THEN InvalidDateTime
    ELSE expiryDateTime(lastHeaderValue(headers, "Cache-Control"),
                        lastHeaderValue(headers, "Expires"), now)

WithExpiry(response, expiry) ==
    [type |-> response.type, serviceName |-> response.serviceName,
     serviceType |-> response.serviceType, locations |-> response.locations,
     altLocations |-> response.altLocations, expiry |-> expiry]

\* SSDP::NotifyMessage::parse(data, now)
NotifyMessage_parse(data, now) ==
    WithExpiry(NotifyMessageParse(data),
               NotifyExpiry(NotifyMessageParse(data).type, httpParse(data).headers, now))

OptionalHeader(present, name, value) ==
    IF present THEN <<HeaderLine(name, value)>> ELSE <<>>

\* the headers a message has: NT, USN, Location, AL as flags, Cache-Control
\* and Expires as values that are empty for an absent header
NotifyOptions ==
    [subType : {"ssdp:alive", "ssdp:byebye", "ssdp:update"},
     NT : BOOLEAN, USN : BOOLEAN, Location : BOOLEAN, AL : BOOLEAN,
     cacheControl : {<<>>, MaxAge60}, expires : {<<>>, ExpiresText}]

NotifyData(status, o) ==
    [status |-> status,
     headers |->
         <<HeaderLine("Host", <<"239.255.255.250:1900">>)>>
             \o OptionalHeader(o.NT, "NT", <<"blenderassociation:blender">>)
             \o <<HeaderLine("NTS", <<o.subType>>)>>
             \o OptionalHeader(o.USN, "USN", <<"someunique:idscheme3">>)
             \o OptionalHeader(o.Location, "LOCATION", DeviceLocation)
             \o OptionalHeader(o.AL, "AL", <<"<", "blender:ixl", ">">>)
             \o OptionalHeader(o.cacheControl # <<>>, "Cache-Control", o.cacheControl)
             \o OptionalHeader(o.expires # <<>>, "Expires", o.expires)]

NotifyStatusLines == {<<"NOTIFY", "*", "HTTP/1.1">>, <<"HTTP/1.1", "200", "OK">>}

ParseNotifyMessage(status, o, now) ==
    /\ call' = [op |-> "NotifyMessage::parse", status |-> status, headers |-> o,
                now |-> now, result |-> NotifyMessage_parse(NotifyData(status, o), now)]
    /\ UNCHANGED httpVars
    /\ UNCHANGED upnpVars

NextNotify ==
    \E status \in NotifyStatusLines, o \in NotifyOptions, now \in Nows :
        ParseNotifyMessage(status, o, now)

SpecNotify == InitSsdp /\ [][NextNotify]_vars

---------------------------------------------------------------------------
(* Claims about parsed NOTIFY messages.                                    *)

\* a NOTIFY * HTTP/1.1 with NTS: ssdp:byebye, NT and USN and without Location,
\* AL, Cache-Control and Expires has been parsed
ParsedByeBye ==
    /\ call.op = "NotifyMessage::parse"
    /\ call.status = <<"NOTIFY", "*", "HTTP/1.1">>
    /\ call.headers.subType = "ssdp:byebye"
    /\ call.headers.NT /\ call.headers.USN
    /\ ~call.headers.Location /\ ~call.headers.AL
    /\ call.headers.cacheControl = <<>> /\ call.headers.expires = <<>>

---------------------------------------------------------------------------
(* xml::Parser: the parse of a document <icon ...> ... </icon> whose start *)
(* tag has attributes and whose children are elements with a text.  The    *)
(* table is that of the Icon state of the parser test, with the width and  *)
(* the height accepted as attributes of the icon as well.  A parser is a   *)
(* record of the state stack, the selected namespace, the fields of the    *)
(* result, the steps that were invoked, the elements and attributes that   *)
(* parseStartElement looked at, and the error of the reader.               *)

MaxAttributes == 2     \* attributes of the start tag
MaxChildren == 1       \* child elements

\* "48" and "x"
XmlTexts == {<<52, 56>>, <<120>>}

\* QStringView{}: the namespace of an element without xmlns, and the key of the
\* table of Parser::parse(category, initialState, const StateTable &)
NoNamespace == ""

XmlAttributes ==
    [name : {"id", "width", "height"}, prefix : {""}, ns : {NoNamespace}, text : XmlTexts]

\* attribute lists of a well-formed start tag: no name occurs twice
AttributeLists ==
    {list \in SeqsUpTo(XmlAttributes, MaxAttributes) :
        \A i, j \in 1..Len(list) : list[i].name = list[j].name => i = j}

XmlChildren ==
    [name : {"width", "height"}, ns : {NoNamespace}, text : XmlTexts,
     attributes : {<<>>}, children : {<<>>}]

ChildLists == SeqsUpTo(XmlChildren, MaxChildren)

NoStep == [kind |-> "monostate"]

\* the StateTable handed to Parser::parse
StateTable(state, path) ==
    CASE state = "Document" /\ path = <<"icon">> ->
             [kind |-> "Transition", state |-> "Icon", list |-> ""]
      [] state = "Icon" /\ path = <<"@", "id">> ->
             [kind |-> "GenericParser", type |-> "QString", field |-> "id",
              object |-> "context", op |-> "assign"]
      [] state = "Icon" /\ path \in {<<"width">>, <<"@", "width">>} ->
             [kind |-> "GenericParser", type |-> "uint", field |-> "size.width",
              object |-> "context", op |-> "assign"]
      [] state = "Icon" /\ path \in {<<"height">>, <<"@", "height">>} ->
             [kind |-> "GenericParser", type |-> "uint", field |-> "size.height",
              object |-> "context", op |-> "assign"]
      [] OTHER -> NoStep

\* the states Document, Root, IconList and Icon of the StateTable of the parser
\* test, whose steps of the Icon state work on the last of TestResult::icons,
\* with one more step: an <icons> element within an <icons> element is a group
\* of the same list, a transition to the state that is current
NestedStateTable(state, path) ==
    CASE state = "Document" /\ path = <<"root">> ->
             [kind |-> "Transition", state |-> "Root", list |-> ""]
      [] state = "Root" /\ path = <<"icons">> ->
             [kind |-> "Transition", state |-> "IconList", list |-> ""]
      [] state = "IconList" /\ path = <<"icons">> ->
             [kind |-> "Transition", state |-> "IconList", list |-> ""]
      [] state = "IconList" /\ path = <<"icon">> ->
             [kind |-> "Transition", state |-> "Icon", list |-> "icons"]
      [] state = "Icon" /\ path = <<"@", "id">> ->
             [kind |-> "GenericParser", type |-> "QString", field |-> "id",
              object |-> "icons.last", op |-> "assign"]
      [] state = "Icon" /\ path = <<"width">> ->
             [kind |-> "GenericParser", type |-> "uint", field |-> "size.width",
              object |-> "icons.last", op |-> "assign"]
      [] state = "Icon" /\ path = <<"topic">> ->
             [kind |-> "GenericParser", type |-> "QString", field |-> "topics",
              object |-> "icons.last", op |-> "append"]
      [] OTHER -> NoStep

\* the steps of a table for a state and a path
Steps(table, state, path) ==
    IF table = "NestedStateTable" THEN NestedStateTable(state, path)
    ELSE StateTable(state, path)

\* TestResult::Icon{}
DefaultIcon ==
    [field \in {"id", "size.width", "size.height", "topics"} |->
        IF field \in {"id", "topics"} THEN <<>> ELSE 0]

\* m_parsers.cend()
cend == "cend"

\* Context{initialState, parsers}, TestResult{} and a reader without error;
\* parsers is the set of the namespaces that have a table, and table the one
\* table they all have; position is the element the reader is at, left the
\* elements whose end the loop of ParserBase::parse has read
NewParser(initialState, parsers, table) ==
    [stack |-> <<initialState>>,
     m_parsers |-> parsers, table |-> table, m_currentNamespace |-> cend,
     fields |-> [field \in {"id", "size.width", "size.height"} |->
                    IF field = "id" THEN <<>> ELSE 0],
     icons |-> <<>>, position |-> <<>>, left |-> <<>>,
     invoked |-> <<>>, visited |-> <<>>, error |-> "NoError", errorString |-> ""]

hasError(r) == r.error # "NoError"

\* QXmlStreamReader::raiseError
raiseError(r, message) == [r EXCEPT !.error = "CustomError", !.errorString = message]

currentState(r) == r.stack[Len(r.stack)]

enterState(r, state) == [r EXCEPT !.stack = Append(@, state)]

leaveState(r) == [r EXCEPT !.stack = SubSeq(@, 1, Len(@) - 1)]

\* a context that takes every namespace for one of its tables
selectAnyNamespace(r, namespaceUri) == [r EXCEPT !.m_currentNamespace = namespaceUri]

\* Context::selectNamespace: the parser after the call; the call returned
\* whether a namespace is selected
selectNamespace(r, namespaceUri) ==
    [r EXCEPT !.m_currentNamespace =
                  IF namespaceUri \in r.m_parsers THEN namespaceUri ELSE cend]

isSelected(r) == r.m_currentNamespace # cend

\* Context::findStep
findStep(r, path) ==
    IF r.m_currentNamespace = cend THEN NoStep
    ELSE Steps(r.table, currentState(r), path)

\* convert<T> has a value: convert<QString> always, convert<uint> unless
\* core::parse<uint> is std::nullopt
converts(type, text) == type # "uint" \/ core_parse_uint(text) >= 0

\* the value of convert<T>
convert(type, text) == IF type = "uint" THEN core_parse_uint(text) ELSE text

\* an object that is not the one the steps are meant for: the first of the
\* list
firstObject(r) == 1

\* currentObject<TestResult::Icon>(result): the index of result.icons.last()
currentObject(r) == Len(r.icons)

\* the value of the field a step works on
fieldOf(r, step) ==
    IF step.object = "context" THEN r.fields[step.field]
    ELSE r.icons[currentObject(r)][step.field]

\* what the store of a step makes of its field: assign<field> and append<list>
stored(r, step, value) ==
    IF step.op = "append" THEN Append(fieldOf(r, step), value) ELSE value

store(r, step, value) ==
    IF step.object = "context" THEN [r EXCEPT !.fields[step.field] = stored(r, step, value)]
    ELSE [r EXCEPT !.icons[currentObject(r)][step.field] = stored(r, step, value)]

\* the record of an invoked step: its path, the element the reader was at,
\* whether the text was converted, the value of its field before and after,
\* and the list before and after
Invoked(path, step, converted, r, after) ==
    [path |-> path, field |-> step.field, converted |-> converted,
     position |-> r.position,
     before |-> fieldOf(r, step), after |-> fieldOf(after, step),
     iconsBefore |-> r.icons, iconsAfter |-> after.icons]

\* ParserBase::read and ParserBase::parseValue for the step found at path
parseValue(path, step, text, r) ==
    IF converts(step.type, text)
    THEN [store(r, step, convert(step.type, text))
              EXCEPT !.invoked =
                         Append(@, Invoked(path, step, TRUE, r,
                                           store(r, step, convert(step.type, text))))]
    ELSE [raiseError(r, "Invalid number")
              EXCEPT !.invoked = Append(@, Invoked(path, step, FALSE, r, r))]

fullPath(elementName, attribute) == <<elementName, "/@", attribute.name>>

shortPath(attribute) == <<"@", attribute.name>>

\* AbstractContext::parseAttribute and the error parseStartElement raises when
\* it returns false
parseAttribute(elementName, attribute, r) ==
    IF findStep(r, fullPath(elementName, attribute)).kind = "GenericParser"
    THEN parseValue(fullPath(elementName, attribute),
                    findStep(r, fullPath(elementName, attribute)), attribute.text, r)
    ELSE IF findStep(r, shortPath(attribute)).kind = "GenericParser"
    THEN parseValue(shortPath(attribute), findStep(r, shortPath(attribute)),
                    attribute.text, r)
    ELSE raiseError(r, "Unexpected attribute")

\* what parseStartElement looked at: the element at position (the indices that
\* lead to it from the root) or its attribute number index, whether a
\* its namespace, whether a namespace was selected for it, the kind of the
\* step found for it, and the parser before and after
Visited(position, index, namespaceUri, selected, kind, before, after) ==
    [position |-> position, attribute |-> index, namespaceUri |-> namespaceUri,
     selected |-> selected, kind |-> kind,
     stackBefore |-> before.stack, stackAfter |-> after.stack,
     fieldsBefore |-> before.fields, fieldsAfter |-> after.fields,
     iconsBefore |-> before.icons, iconsAfter |-> after.icons,
     errorBefore |-> before.error, errorAfter |-> after.error]

\* the kind of the step parseAttribute finds
attributeStepKind(elementName, attribute, r) ==
    IF findStep(r, fullPath(elementName, attribute)).kind = "GenericParser"
    THEN "GenericParser"
    ELSE IF findStep(r, shortPath(attribute)).kind = "GenericParser"
    THEN "GenericParser"
    ELSE "monostate"

\* the body of the loop of parseStartElement over attributeList
parseStartAttribute(element, position, i, r) ==
    LET attribute == element.attributes[i]
        selected == IF attribute.prefix # "" THEN selectNamespace(r, attribute.ns) ELSE r
        after == IF attribute.prefix # "" /\ ~isSelected(selected)
                 THEN selected
                 ELSE parseAttribute(element.name, attribute, selected)
    IN [after EXCEPT !.visited =
           Append(@, Visited(position, i, attribute.ns,
                             isSelected(selected),
                             IF attribute.prefix # "" /\ ~isSelected(selected)
                             THEN "ignored"
                             ELSE attributeStepKind(element.name, attribute, selected),
                             r, after))]

\* the loop of parseStartElement over attributeList
parseAttributes(element, position, r) ==
    LET F[i \in 0..Len(element.attributes)] ==
            IF i = 0 THEN r ELSE parseStartAttribute(element, position, i, F[i - 1])
    IN F[Len(element.attributes)]

\* emplaceBack<list>(context, {}) of Parser::transition(Context &)
emplaceBack(r, list) ==
    IF list = "icons" THEN [r EXCEPT !.icons = Append(@, DefaultIcon)] ELSE r

\* the branch of parseStartElement for nextState: the state is entered unless
\* it is the current one
enterNextState(r, nextState) ==
    IF nextState # currentState(r) THEN enterState(r, nextState) ELSE r

\* AbstractContext::parseElement with the branch of parseStartElement that
\* follows it, up to the loop over the attributes; the call of findStep for
\* the element is the one that runs the function of a transition, which
\* appends to its list
parseElement(element, r) ==
    IF findStep(r, <<element.name>>).kind = "Transition"
    THEN enterNextState(emplaceBack(r, findStep(r, <<element.name>>).list),
                        findStep(r, <<element.name>>).state)
    ELSE IF findStep(r, <<element.name>>).kind = "GenericParser"
    THEN parseValue(<<element.name>>, findStep(r, <<element.name>>), element.text, r)
    ELSE raiseError(r, "Unexpected element")

\* QXmlStreamReader::skipCurrentElement: the reader moves behind the end of
\* the element
skipCurrentElement(r) == r

\* ParserBase::parseStartElement
parseStartElement(element, position, r) ==
    LET selected == selectNamespace([r EXCEPT !.position = position], element.ns)
        kind == IF isSelected(selected)
                THEN findStep(selected, <<element.name>>).kind ELSE "ignored"
        started == IF ~isSelected(selected) THEN skipCurrentElement(selected)
                   ELSE IF kind = "monostate" THEN raiseError(selected, "Unexpected element")
                   ELSE parseElement(element, selected)
        visited == [started EXCEPT !.visited =
                       Append(@, Visited(position, 0, element.ns, isSelected(selected), kind,
                                         r, started))]
    IN IF isSelected(selected) /\ kind # "monostate"
       THEN parseAttributes(element, position, visited)
       ELSE visited

\* !context.isEmpty() of the loop of ParserBase::parse
isEmpty(r) == r.stack = <<>>

\* ParserBase::parseEndElement, reached unless the reader has an error or the
\* context is empty
parseEndElement(r) == IF hasError(r) \/ isEmpty(r) THEN r ELSE leaveState(r)

\* the end of the element at position has been read by the loop
Left(position, before, r) ==
    IF hasError(r) \/ isEmpty(r) THEN r
    ELSE [parseEndElement(r) EXCEPT
              !.left = Append(@, [position |-> position, stackBefore |-> before.stack,
                                  stackAfter |-> parseEndElement(r).stack])]

RECURSIVE parseTokens(_, _, _)

\* the loop of ParserBase::parse over the child elements: it ends with the
\* first error
parseChildren(children, position, r) ==
    LET F[i \in 0..Len(children)] ==
            IF i = 0 THEN r
            ELSE IF hasError(F[i - 1]) \/ isEmpty(F[i - 1]) THEN F[i - 1]
            ELSE parseTokens(children[i], Append(position, i), F[i - 1])
    IN F[Len(children)]

\* the loop of ParserBase::parse from the start of an element to its end: the
\* end of a skipped element is read by skipCurrentElement, that of an element
\* with a parser by readElementText, and that of an element with a transition
\* by the loop, which calls parseEndElement
parseTokens(element, position, r) ==
    LET started == parseStartElement(element, position, r)
    IN IF isSelected(selectNamespace(r, element.ns))
          /\ findStep(selectNamespace(r, element.ns), <<element.name>>).kind = "Transition"
       THEN Left(position, r, parseChildren(element.children, position, started))
       ELSE started

\* Parser::parse(category, initialState, parsers) for the document
parse(document, initialState, parsers, table) ==
    parseTokens(document, <<>>, NewParser(initialState, parsers, table))

XmlDocument(attributes, children) ==
    [name |-> "icon", ns |-> NoNamespace, text |-> <<>>,
     attributes |-> attributes, children |-> children]

Parse(attributes, children) ==
    /\ call' = [op |-> "parse", document |-> XmlDocument(attributes, children),
                succeeded |-> ~hasError(parse(XmlDocument(attributes, children),
                                              "Document", {NoNamespace}, "StateTable")),
                result |-> parse(XmlDocument(attributes, children), "Document",
                                 {NoNamespace}, "StateTable")]
    /\ UNCHANGED httpVars
    /\ UNCHANGED upnpVars

NextXml ==
    \E attributes \in AttributeLists, children \in ChildLists : Parse(attributes, children)

SpecXml == InitUpnp /\ [][NextXml]_vars

---------------------------------------------------------------------------
(* Claims about the XML parser.                                            *)

\* the positions of the invoked steps whose text was not converted
Unconverted(invoked) == {i \in 1..Len(invoked) : ~invoked[i].converted}

\* C20 (as claimed): if the text of an element or attribute cannot be converted
\* to the type of its target, the parser raises a custom XML error and parse
\* returns false, the target field keeps the value it had, and no step of a
\* later element or attribute of the document is executed
C20_ConversionErrorStopsTheParse ==
    call.op = "parse" =>
        \A i \in Unconverted(call.result.invoked) :
            /\ call.result.error = "CustomError"
            /\ ~call.succeeded
            /\ call.result.invoked[i].after = call.result.invoked[i].before
            /\ i = Len(call.result.invoked)

---------------------------------------------------------------------------
(* xml::Parser with a table for one namespace: documents <icon> in that    *)
(* namespace whose attributes and children are in that namespace, in       *)
(* another one, or have no step.                                           *)

MaxSiblings == 2       \* child elements of the icon

\* the namespace of the table, as in the row "namespace" of the parser test
TestNamespace == "urn:test"

\* a namespace without a table
OtherNamespace == "urn:other"

\* id="x", extra="x", o:id="x" and t:id="x", with xmlns:o and xmlns:t bound to
\* the other and to the table's namespace
NamespaceAttributes ==
    {[name |-> "id", prefix |-> "", ns |-> NoNamespace, text |-> <<120>>],
     [name |-> "extra", prefix |-> "", ns |-> NoNamespace, text |-> <<120>>],
     [name |-> "id", prefix |-> "o", ns |-> OtherNamespace, text |-> <<120>>],
     [name |-> "id", prefix |-> "t", ns |-> TestNamespace, text |-> <<120>>]}

NamespaceAttributeLists ==
    {list \in SeqsUpTo(NamespaceAttributes, MaxAttributes) :
        \A i, j \in 1..Len(list) : list[i] = list[j] => i = j}

XmlElement(name, ns, text, children) ==
    [name |-> name, ns |-> ns, text |-> text, attributes |-> <<>>, children |-> children]

\* <width>48</width>, <extra/>, <o:width>48</o:width> and
\* <o:width><width>48</width></o:width>
NamespaceChildren ==
    {XmlElement("width", TestNamespace, <<52, 56>>, <<>>),
     XmlElement("extra", TestNamespace, <<>>, <<>>),
     XmlElement("width", OtherNamespace, <<52, 56>>, <<>>),
     XmlElement("width", OtherNamespace, <<>>,
                <<XmlElement("width", TestNamespace, <<52, 56>>, <<>>)>>)}

NamespaceChildLists == SeqsUpTo(NamespaceChildren, MaxSiblings)

NamespaceDocument(attributes, children) ==
    [name |-> "icon", ns |-> TestNamespace, text |-> <<>>,
     attributes |-> attributes, children |-> children]

\* Parser::parse(category, initialState, {{namespace, parsers}})
ParseNamespaces(attributes, children) ==
    /\ call' = [op |-> "parseNamespaces",
                document |-> NamespaceDocument(attributes, children),
                succeeded |-> ~hasError(parse(NamespaceDocument(attributes, children),
                                              "Document", {TestNamespace}, "StateTable")),
                result |-> parse(NamespaceDocument(attributes, children), "Document",
                                 {TestNamespace}, "StateTable")]
    /\ UNCHANGED httpVars
    /\ UNCHANGED upnpVars

NextXmlNamespaces ==
    \E attributes \in NamespaceAttributeLists, children \in NamespaceChildLists :
        ParseNamespaces(attributes, children)

SpecXmlNamespaces == InitUpnp /\ [][NextXmlNamespaces]_vars

\* position is inside the element at ancestor
IsInside(position, ancestor) ==
    Len(position) > Len(ancestor) /\ SubSeq(position, 1, Len(ancestor)) = ancestor

\* C21: an element or attribute for which a namespace is selected and which
\* has no step in the current state makes the parse fail with an error; an
\* element in a namespace without a table is skipped with its subtree: nothing
\* inside it is looked at, and the state stack, the result and the error of
\* the reader are as before
C21_UnexpectedFailsAndForeignIsSkipped ==
    call.op = "parseNamespaces" =>
        \A i \in 1..Len(call.result.visited) :
            LET v == call.result.visited[i]
            IN /\ (v.selected /\ v.kind = "monostate")
                  => (call.result.error = "CustomError" /\ ~call.succeeded)
               /\ (v.attribute = 0 /\ v.namespaceUri # TestNamespace)
                  => (/\ v.stackAfter = v.stackBefore
                      /\ v.fieldsAfter = v.fieldsBefore
                      /\ v.errorAfter = v.errorBefore
                      /\ \A j \in 1..Len(call.result.visited) :
                             ~IsInside(call.result.visited[j].position, v.position))

\* an element with a child was skipped, and a later element without a step
\* made the parse fail
C21_Witness ==
    /\ call.op = "parseNamespaces"
    /\ ~call.succeeded
    /\ Len(call.document.children) = 2
    /\ call.document.children[1].ns = OtherNamespace
    /\ call.document.children[1].children # <<>>
    /\ \E i, j \in 1..Len(call.result.visited) :
           /\ call.result.visited[i].position = <<1>>
           /\ call.result.visited[i].kind = "ignored"
           /\ call.result.visited[j].position = <<2>>
           /\ call.result.visited[j].selected
           /\ call.result.visited[j].kind = "monostate"

---------------------------------------------------------------------------
(* DeviceDescriptionParser::read for documents <root> with an optional     *)
(* <URLBase> before or after the <device>, whose <deviceList> holds nested *)
(* devices.  A <device> element is the record of its UDN and of the        *)
(* devices of its deviceList; a root is the sequence of its children.      *)

MaxNested == 2         \* devices of one deviceList

\* the URL the document was fetched from, and the text of a URLBase element
TransportUrls == {<<"http://192.168.1.7", "dd.xml">>, <<"http://192.168.1.7:8080", "">>}

UrlBases == {<<"http://192.168.1.7", "dd.xml">>, <<"http://192.168.1.9", "base", "">>}

DeviceElement(udn, devices) == [name |-> "device", udn |-> udn, devices |-> devices]

UrlBaseElement(text) == [name |-> "URLBase", text |-> text]

\* <device> elements without a deviceList, with one of such devices, and with
\* one of devices that may have a deviceList themselves
LeafDevices == {DeviceElement(<<"uuid:leaf">>, <<>>)}

InnerDevices ==
    {DeviceElement(<<"uuid:inner">>, list) : list \in SeqsUpTo(LeafDevices, MaxNested)}

RootDevices ==
    {DeviceElement(<<"uuid:root">>, list) : list \in SeqsUpTo(InnerDevices, MaxNested)}

DescriptionDocuments ==
    {<<device>> : device \in RootDevices}
    \cup {<<UrlBaseElement(base), device>> : base \in UrlBases, device \in RootDevices}
    \cup {<<device, UrlBaseElement(base)>> : base \in UrlBases, device \in RootDevices}

RECURSIVE DeviceDescriptionParser_read(_, _, _)

\* the steps of State::DeviceList for the devices of a deviceList, in order:
\* deviceList += read(device.baseUrl, State::Device)
readDeviceList(device, devices) ==
    LET F[i \in 0..Len(devices)] ==
            IF i = 0 THEN <<>>
            ELSE F[i - 1] \o DeviceDescriptionParser_read(device.baseUrl, devices[i], "Device")
    IN F[Len(devices)]

\* the steps of State::Device for a <device> element: the parser's device
\* after them, and what was added to deviceList
readDevice(device, element) ==
    [device |-> [device EXCEPT !.uniqueDeviceName = element.udn],
     added |-> readDeviceList(device, element.devices)]

\* the steps of State::Root for the children of <root>, in order
readRoot(device, children) ==
    LET F[i \in 0..Len(children)] ==
            IF i = 0 THEN [device |-> device, added |-> <<>>]
            ELSE IF children[i].name = "URLBase"
            THEN [F[i - 1] EXCEPT !.device.baseUrl = children[i].text]
            ELSE [device |-> readDevice(F[i - 1].device, children[i]).device,
                  added |-> F[i - 1].added
                            \o readDevice(F[i - 1].device, children[i]).added]
    IN F[Len(children)]

\* DeviceDescriptionParser::read(deviceUrl, initialState) of a document that
\* parses without error: deviceList with its first element replaced by device
DeviceDescriptionParser_read(deviceUrl, document, initialState) ==
    LET device == [DefaultDeviceDescription EXCEPT !.url = deviceUrl,
                                                   !.baseUrl = deviceUrl]
        parsed == IF initialState = "Device" THEN readDevice(device, document)
                  ELSE readRoot(device, document)
    IN <<parsed.device>> \o parsed.added

\* DeviceDescription::parse(device, deviceUrl)
DeviceDescription_parse(document, deviceUrl) ==
    /\ call' = [op |-> "DeviceDescription::parse", document |-> document,
                deviceUrl |-> deviceUrl,
                result |-> DeviceDescriptionParser_read(deviceUrl, document, "Document")]
    /\ UNCHANGED httpVars
    /\ UNCHANGED upnpVars

NextDeviceDescription ==
    \E document \in DescriptionDocuments, deviceUrl \in TransportUrls :
        DeviceDescription_parse(document, deviceUrl)

SpecDeviceDescription == InitUpnp /\ [][NextDeviceDescription]_vars

\* C22 (as claimed): all device records produced from one device description,
\* the root device and every nested device, carry the URL the document was
\* fetched from as their url, whether or not the document has a URLBase
C22_AllDevicesCarryTheTransportUrl ==
    call.op = "DeviceDescription::parse" =>
        \A i \in 1..Len(call.result) : call.result[i].url = call.deviceUrl

---------------------------------------------------------------------------
(* MDNS::Resolver::onReadyRead for one datagram of a peer whose message    *)
(* has several records of one name.                                        *)

MaxRecords == 3        \* resource records of a received message

PrinterName == <<<<"printer">>, <<"_ipp">>, <<"_tcp">>, <<"local">>>>

\* two SRV records of one service with different targets, two addresses of
\* alpha.local and one of beta.local
PeerRecords ==
    {[name |-> PrinterName, type |-> SRV, value |-> <<"alpha", Dot, "local">>],
     [name |-> PrinterName, type |-> SRV, value |-> <<"beta", Dot, "local">>],
     [name |-> <<<<"alpha">>, <<"local">>>>, type |-> A, value |-> "192.168.1.7"],
     [name |-> <<<<"alpha">>, <<"local">>>>, type |-> AAAA, value |-> "fe80::7"],
     [name |-> <<<<"beta">>, <<"local">>>>, type |-> A, value |-> "192.168.1.7"]}

PeerMessages ==
    {[questions |-> <<>>, responses |-> records] :
        records \in NonEmptySeqsUpTo(PeerRecords, MaxRecords)}

NextMdnsRecords ==
    \E message \in PeerMessages :
        \E hashOrder \in HashOrders(<<Datagram(message, "192.168.1.7", s_mdnsPort)>>) :
            OnReadyRead(<<Datagram(message, "192.168.1.7", s_mdnsPort)>>, hashOrder)

SpecMdnsRecords == InitMdns /\ [][NextMdnsRecords]_vars

\* the records of the given types that the message of the datagram that caused
\* signal number k has for name
RecordsOf(k, name, types) ==
    SelectSeq(received[emitted[k].cause].data.responses,
              LAMBDA r : Join(r.name) = name /\ r.type \in types)

\* C23 (as claimed): when a datagram has several SRV records of one name, the
\* serviceResolved signal for that name carries the last of them
C23_LastServiceRecordWins ==
    \A k \in 1..Len(emitted) :
        emitted[k].signal = "serviceResolved" =>
            LET records == RecordsOf(k, Argument(emitted[k]).name, {SRV})
            IN Argument(emitted[k]).service = records[Len(records)].value

\* the hostNameResolved signals that datagram number i caused for name
HostSignals(i, name) ==
    {k \in 1..Len(emitted) :
        /\ emitted[k].signal = "hostNameResolved"
        /\ emitted[k].cause = i
        /\ Argument(emitted[k]).name = normalizedHostName(name, m_domain)}

\* the position of the first record of the given types and name with value
FirstRecord(responses, name, value) ==
    CHOOSE i \in 1..Len(responses) :
        /\ Join(responses[i].name) = name /\ responses[i].type \in {A, AAAA}
        /\ responses[i].value = value
        /\ \A j \in 1..(i - 1) :
               ~(/\ Join(responses[j].name) = name /\ responses[j].type \in {A, AAAA}
                 /\ responses[j].value = value)

\* C24: for each name with an A or AAAA record in a datagram there is exactly
\* one hostNameResolved signal of that datagram, and its address list has each
\* address of the name once, in the order of the first occurrences
C24_OneHostSignalWithDistinctAddresses ==
    \A i \in 1..Len(decoded) :
        LET responses == received[decoded[i]].data.responses
        IN \A name \in ResponseNames(received[decoded[i]].data, {A, AAAA}) :
               /\ Cardinality(HostSignals(decoded[i], name)) = 1
               /\ \A k \in HostSignals(decoded[i], name) :
                      LET addresses == Argument(emitted[k]).addresses
                      IN /\ Range(addresses)
                                = {responses[j].value :
                                      j \in {n \in 1..Len(responses) :
                                                /\ Join(responses[n].name) = name
                                                /\ responses[n].type \in {A, AAAA}}}
                         /\ \A a, b \in 1..Len(addresses) :
                                a < b => FirstRecord(responses, name, addresses[a])
                                             < FirstRecord(responses, name, addresses[b])

\* a datagram with an address of one name twice and another address between,
\* and a record of another name
C24_Witness ==
    /\ Len(decoded) = 1
    /\ \E k \in 1..Len(emitted) :
           /\ emitted[k].signal = "hostNameResolved"
           /\ Len(Argument(emitted[k]).addresses) = 2
           /\ Len(RecordsOf(k, Join(<<<<"alpha">>, <<"local">>>>), {A, AAAA})) = 3
           /\ RecordsOf(k, Join(<<<<"alpha">>, <<"local">>>>), {A, AAAA})[1].value
                  = RecordsOf(k, Join(<<<<"alpha">>, <<"local">>>>), {A, AAAA})[3].value

---------------------------------------------------------------------------
(* The SSDP resolver receiving what it sent: the datagrams that             *)
(* submitQueries writes, coming back from the address and the port of the  *)
(* socket that wrote them.                                                 *)

\* the datagrams a tick writes with the present sockets and queries, as they
\* are received: the finalized query, from the address of the socket and the
\* port it is bound to
WireEchoes ==
    {Datagram(submitQueries(m_sockets)[address][i].data, address, randomPort) :
        address \in DOMAIN m_sockets, i \in 1..Len(m_queries)}

NextWireEcho ==
    \/ \E serviceType \in ServiceTypes : LookupService(ServiceLookupRequest(serviceType))
    \/ \E observed \in SUBSET LocalAddresses : OnTimeout(observed, LocalAddresses, Joined)
    \/ \E batch \in NonEmptySeqsUpTo(WireEchoes
                                         \cup {Datagram(AliveNotify, "192.168.1.7",
                                                        s_ssdpPort)},
                                     MaxBatch) :
           OnDatagramReceived(batch)

SpecWireEcho == InitSsdp /\ [][NextWireEcho]_vars

\* the datagram is one the resolver wrote with its present sockets and queries
IsWireEcho(datagram) == datagram \in WireEchoes

\* C25 (as claimed): a query datagram the resolver sent, received from one of
\* its own addresses with the bytes that were written and from the port the
\* sending socket is bound to, is dropped by isOwnMessage: it is not handed to
\* processDatagram and causes no signal
C25_SentQueriesAreDropped ==
    \A i \in 1..Len(received) :
        IsWireEcho(received[i]) => ~Contains(decoded, i) /\ CausedBy(i) = {}

---------------------------------------------------------------------------
(* The ticks of the SSDP resolver: scans that observe any of the local     *)
(* addresses, with sockets that can or cannot be bound and every outcome   *)
(* of joining the group.                                                   *)

NextSockets ==
    \/ \E serviceType \in ServiceTypes : LookupService(ServiceLookupRequest(serviceType))
    \/ \E observed \in SUBSET LocalAddresses, bindable \in SUBSET LocalAddresses :
           \E joins \in [LocalAddresses -> JoinOutcomes] :
               OnTimeout(observed, bindable, joins)

SpecSockets == InitSsdp /\ [][NextSockets]_vars

\* the step is a tick of the resolver
IsTick == call'.op = "onTimeout"

\* the socket objects of a table
SocketsOf(table) == {table[address] : address \in DOMAIN table}

\* createSocket returned a socket for the address in the tick that ran last
Created(address) == address \in call.bindable /\ call.joins[address] # "SocketError"

\* C26: after a tick the socket table has a socket exactly for the observed
\* addresses that had one or for which one could be created, no two addresses
\* share a socket, a socket of an address that is still observed is the one
\* the table had before, and the socket of an address that is no longer
\* observed is in the table no more
C26_SocketTableFollowsTheScan ==
    [][IsTick =>
          /\ DOMAIN m_sockets'
                 = {address \in call'.observed :
                       address \in DOMAIN m_sockets \/ Created(address)'}
          /\ \A a, b \in DOMAIN m_sockets' : m_sockets'[a][3] = m_sockets'[b][3] => a = b
          /\ \A address \in DOMAIN m_sockets \cap call'.observed :
                 m_sockets'[address] = m_sockets[address]
          /\ \A address \in DOMAIN m_sockets \ call'.observed :
                 /\ address \notin DOMAIN m_sockets'
                 /\ m_sockets[address] \notin SocketsOf(m_sockets')]_vars

\* a tick kept the socket of 192.168.1.2, which was created while that of
\* fe80::2 was in the table, and removed that of fe80::2
C26_Witness ==
    /\ call.op = "onTimeout"
    /\ call.observed = {"192.168.1.2"}
    /\ DOMAIN m_sockets = {"192.168.1.2"}
    /\ m_sockets["192.168.1.2"][3] = 2

\* C27: a tick writes, on each socket of the reconciled table, one datagram
\* for each query of the set, in the order of the set, with the group
\* placeholder replaced, to the multicast group of the socket's address and the
\* protocol port; the set grows at its end only, so its order is that of the
\* submissions
C27_OneDatagramPerSocketAndQuery ==
    /\ [](call.op = "onTimeout" =>
             /\ DOMAIN sent = DOMAIN m_sockets
             /\ \A address \in DOMAIN m_sockets :
                    /\ Len(sent[address]) = Len(m_queries)
                    /\ \A i \in 1..Len(m_queries) :
                           /\ sent[address][i].data
                                  = replace(m_queries[i], s_ssdpKeyMulticastGroup,
                                            IF protocol(address) = "IPv4"
                                            THEN s_ssdpUnicastIPv4 ELSE s_ssdpUnicastIPv6)
                           /\ sent[address][i].group
                                  = (IF protocol(address) = "IPv4"
                                     THEN s_ssdpUnicastIPv4 ELSE s_ssdpUnicastIPv6)
                           /\ sent[address][i].port = s_ssdpPort)
    /\ [][\/ m_queries' = m_queries
          \/ /\ call'.op = "lookupService"
             /\ Len(m_queries') = Len(m_queries) + 1
             /\ SubSeq(m_queries', 1, Len(m_queries)) = m_queries]_vars

\* a tick wrote two queries on each of two sockets
C27_Witness ==
    /\ call.op = "onTimeout"
    /\ Cardinality(DOMAIN m_sockets) = 2
    /\ Len(m_queries) = 2
    /\ \A address \in DOMAIN m_sockets : Len(sent[address]) = 2

\* C28: when bind fails for an observed address without a socket, the table
\* has no socket for it after the tick, the other observed addresses have
\* theirs and the queries are written on them; and in every tick that observes
\* an address without a socket, the address gets a socket if bind and join
\* succeed for it
C28_BindFailureSkipsTheAddress ==
    [][IsTick =>
          \A address \in call'.observed \ DOMAIN m_sockets :
              /\ address \notin call'.bindable =>
                     /\ address \notin DOMAIN m_sockets'
                     /\ \A other \in call'.observed \ {address} :
                            (other \in DOMAIN m_sockets \/ Created(other)') =>
                                /\ other \in DOMAIN m_sockets'
                                /\ Len(sent'[other]) = Len(m_queries)
              /\ (address \in call'.bindable /\ call'.joins[address] = "joined") =>
                     address \in DOMAIN m_sockets']_vars

\* bind failed for fe80::2 in a tick that wrote a query on the socket of
\* 192.168.1.2
C28_Witness ==
    /\ call.op = "onTimeout"
    /\ call.observed = LocalAddresses
    /\ call.bindable = {"192.168.1.2"}
    /\ DOMAIN m_sockets = {"192.168.1.2"}
    /\ Len(sent["192.168.1.2"]) > 0

---------------------------------------------------------------------------
(* The ticks of an SSDP and of an mDNS resolver with every outcome of      *)
(* joining the group.                                                      *)

NextJoin ==
    \/ \E serviceType \in ServiceTypes : LookupService(ServiceLookupRequest(serviceType))
    \/ \E observed \in SUBSET LocalAddresses :
           \E joins \in [LocalAddresses -> JoinOutcomes] :
               OnTimeout(observed, LocalAddresses, joins)
    \/ \E hostName \in {<<"alpha">>, <<"beta">>} : LookupHostNames(<<hostName>>)
    \/ \E hostAddresses \in SeqsUpTo(LocalAddresses, MaxAddresses) :
           \E joins \in [{"AnyIPv4", "AnyIPv6"} -> JoinOutcomes] :
               MdnsOnTimeout(hostAddresses, joins)

SpecJoin == InitMulticast /\ [][NextJoin]_vars

\* C29 (as claimed): when joining the group fails for a socket, the socket is
\* not in the table after the tick and no query is written from it: for the
\* SSDP resolver the socket of an observed address that is being created, for
\* the mDNS resolver either of its sockets
C29_JoinFailureSkipsTheSocket ==
    [][IsTick =>
          IF resolverClass = "mdns"
          THEN \A i \in 1..Len(m_sockets) :
                   call'.joins[m_sockets[i]] # "joined" =>
                       /\ ~Contains(m_sockets', m_sockets[i])
                       /\ sent'[i] = <<>>
          ELSE \A address \in call'.observed \ DOMAIN m_sockets :
                   (address \in call'.bindable /\ call'.joins[address] # "joined") =>
                       /\ address \notin DOMAIN m_sockets'
                       /\ address \notin DOMAIN sent']_vars


---------------------------------------------------------------------------
(* Several datagrams pending on a socket of an SSDP or an mDNS resolver:   *)
(* datagrams of peers that cause several signals each, mixed with the      *)
(* resolver's own queries coming back.                                     *)

\* an mDNS message with one service and the addresses of two hosts
PrinterMessage ==
    [questions |-> <<>>,
     responses |-> <<[name |-> PrinterName, type |-> SRV,
                      value |-> <<"alpha", Dot, "local">>],
                     [name |-> <<<<"alpha">>, <<"local">>>>, type |-> A,
                      value |-> "192.168.1.7"],
                     [name |-> <<<<"beta">>, <<"local">>>>, type |-> A,
                      value |-> "192.168.1.7"]>>]

ByeByeNotify ==
    [status |-> <<"NOTIFY", "*", "HTTP/1.1">>,
     headers |-> NotifyHeaders("ssdp:byebye", <<DeviceLocation>>)]

PendingPayloads ==
    Range(m_queries)
        \cup (IF resolverClass = "mdns" THEN {ResponseMessage, PrinterMessage}
                                        ELSE {AliveNotify, ByeByeNotify})

\* the stored queries come from the resolver's own address and the protocol
\* port, the messages of the peer from the peer
PendingDatagrams ==
    {Datagram(data, IF Contains(m_queries, data) THEN "192.168.1.2" ELSE "192.168.1.7",
              port) : data \in PendingPayloads}

NextPending ==
    \/ \E serviceType \in ServiceTypes : LookupService(ServiceLookupRequest(serviceType))
    \/ OnTimeout({"192.168.1.2"}, LocalAddresses, Joined)
    \/ \E batch \in NonEmptySeqsUpTo(PendingDatagrams, MaxBatch) : OnDatagramReceived(batch)
    \/ \E hostName \in {<<"alpha">>, <<"beta">>} : LookupHostNames(<<hostName>>)
    \/ \E hostAddresses \in {<<>>, <<"192.168.1.2">>} :
           MdnsOnTimeout(hostAddresses, MdnsJoined)
    \/ /\ resolverClass = "mdns"
       /\ \E batch \in NonEmptySeqsUpTo(PendingDatagrams, MaxBatch) :
              \E hashOrder \in HashOrders(batch) : OnReadyRead(batch, hashOrder)

SpecPending == InitMulticast /\ [][NextPending]_vars

\* whether the resolver takes the datagram for one of its own
IsOwn(datagram) ==
    IF resolverClass = "mdns" THEN mdns_isOwnMessage(datagram) ELSE isOwnMessage(datagram)

\* the place of a signal among the signals of one mDNS datagram
Rank(signal) ==
    CASE signal = "serviceResolved" -> 1
      [] signal = "hostNameResolved" -> 2
      [] OTHER -> 3

\* the number of signals the resolver derives from a datagram
Derived(datagram) ==
    IF resolverClass = "mdns"
    THEN Cardinality(ResponseNames(datagram.data, {SRV}))
             + Cardinality(ResponseNames(datagram.data, {A, AAAA})) + 1
    ELSE Len(processDatagram(datagram.data))

\* C30: the datagrams pending on a socket are processed one at a time in the
\* order they arrived, the resolver's own being passed over, and all signals
\* derived from one datagram are emitted before the next datagram is read;
\* the signals of one mDNS datagram are its serviceResolved signals, then its
\* hostNameResolved signals, then messageReceived with its message
C30_SignalsOfADatagramBeforeTheNext ==
    call.op \in {"onDatagramReceived", "onReadyRead"} =>
        /\ \A j \in 1..Len(decoded) - 1 : decoded[j] < decoded[j + 1]
        /\ Range(decoded) = {i \in 1..Len(received) : ~IsOwn(received[i])}
        /\ \A k \in 1..Len(emitted) : emitted[k].cause \in Range(decoded)
        /\ \A j, k \in 1..Len(emitted) :
               j < k => emitted[j].cause <= emitted[k].cause
        /\ \A i \in Range(decoded) : Cardinality(CausedBy(i)) = Derived(received[i])
        /\ resolverClass = "mdns" =>
               /\ \A j, k \in 1..Len(emitted) :
                      (j < k /\ emitted[j].cause = emitted[k].cause) =>
                          Rank(emitted[j].signal) <= Rank(emitted[k].signal)
               /\ \A i \in Range(decoded) :
                      \E k \in CausedBy(i) :
                          /\ emitted[k].signal = "messageReceived"
                          /\ Argument(emitted[k]) = received[i].data
                          /\ \A j \in CausedBy(i) : j <= k

\* two different datagrams of a peer were pending and each caused the signals
\* of a service and of a host name
C30_Witness ==
    /\ resolverClass = "mdns"
    /\ call.op = "onReadyRead"
    /\ Len(received) = 2
    /\ decoded = <<1, 2>>
    /\ received[1] # received[2]
    /\ \A i \in 1..2 :
           \E j, k \in CausedBy(i) :
               /\ emitted[j].signal = "serviceResolved"
               /\ emitted[k].signal = "hostNameResolved"


---------------------------------------------------------------------------
(* The UPnP resolver loading the details of devices whose description may  *)
(* have a URLBase element.                                                 *)

DetailBodies(kind) ==
    IF kind = "device" THEN {"rich", "based"}
    ELSE IF kind = "icon" THEN {"png", "gif"} ELSE {"scpd"}

NextDetails ==
    \/ OnTimeout({"192.168.1.2"}, LocalAddresses, Joined)
    \/ OnDatagramReceived(<<Datagram(AliveNotify, "192.168.1.7", s_ssdpPort)>>)
    \/ \E newBehaviors \in {{LoadIcons}, Behaviors} : SetBehaviors(newBehaviors)
    \/ SetNetworkAccessManager(1)
    \/ \E reply \in 1..Len(replies) :
           \E state \in {"ok", "error"} :
               \E body \in DetailBodies(replies[reply].kind) :
                   ReplyFinished(reply, state, body)

SpecDetails == InitUpnp /\ [][NextDetails]_vars

\* the replies of the GETs issued for icons
IconReplies == {reply \in 1..Len(replies) : replies[reply].kind = "icon"}

\* the icon a reply was requested for, as its loader has it
IconOf(reply, loaderList) ==
    loaderList[replies[reply].loader].m_device.icons[replies[reply].index]

\* C31 (as claimed): with LoadIcons enabled, the GET issued for an icon with a
\* non-empty url requests the icon's url resolved against the baseUrl of its
\* device, and the body of the response is stored in the data of that icon
C31_IconsAreFetchedFromTheBaseUrl ==
    /\ [](\A reply \in IconReplies :
              replies[reply].url =
                  resolved(loaders[replies[reply].loader].m_device.baseUrl,
                           IconOf(reply, loaders).url))
    /\ [][\A reply \in IconReplies :
              \A body \in DetailBodies("icon") :
                  ReplyFinished(reply, "ok", body) =>
                      IconOf(reply, loaders').data = <<body>>]_vars


---------------------------------------------------------------------------
(* xml::Parser with the table of nested icon lists: documents              *)
(* <root><icons> ... </icons></root> whose <icons> element has icons and    *)
(* groups of icons.                                                        *)

\* <icon>, <icon id="x">, each empty, with <width>48</width>, or with two
\* <topic>x</topic>
IconElements ==
    {[name |-> "icon", ns |-> NoNamespace, text |-> <<>>,
      attributes |-> attributes, children |-> children] :
        attributes \in {<<>>, <<[name |-> "id", prefix |-> "", ns |-> NoNamespace,
                                 text |-> <<120>>]>>},
        children \in {<<>>,
                      <<XmlElement("width", NoNamespace, <<52, 56>>, <<>>)>>,
                      <<XmlElement("topic", NoNamespace, <<120>>, <<>>),
                        XmlElement("topic", NoNamespace, <<120>>, <<>>)>>}}

\* <icons> within <icons>: empty or with one icon without attributes
IconGroups ==
    {XmlElement("icons", NoNamespace, <<>>, <<>>)}
        \cup {XmlElement("icons", NoNamespace, <<>>, <<icon>>) :
                 icon \in {i \in IconElements : i.attributes = <<>>}}

NestedDocument(children) ==
    XmlElement("root", NoNamespace, <<>>,
               <<XmlElement("icons", NoNamespace, <<>>, children)>>)

ParseNested(children) ==
    /\ call' = [op |-> "parseNested", document |-> NestedDocument(children),
                succeeded |-> ~hasError(parse(NestedDocument(children), "Document",
                                              {NoNamespace}, "NestedStateTable")),
                result |-> parse(NestedDocument(children), "Document",
                                 {NoNamespace}, "NestedStateTable")]
    /\ UNCHANGED httpVars
    /\ UNCHANGED upnpVars

\* one document is parsed in a behaviour
NextXmlNested ==
    /\ call = NoCall
    /\ \E children \in SeqsUpTo(IconElements \cup IconGroups, MaxSiblings) :
           ParseNested(children)

SpecXmlNested == InitUpnp /\ [][NextXmlNested]_vars

\* the elements parseStartElement found a transition for
Transitions(visited) ==
    {k \in 1..Len(visited) : visited[k].attribute = 0 /\ visited[k].kind = "Transition"}

\* C32 (as claimed): for every element whose start tag matched a transition,
\* the state stack after its end tag is the stack before its start tag, and
\* after every start tag the depth of the stack is one plus the number of open
\* elements that matched a transition
C32_EndTagRestoresTheState ==
    call.op = "parseNested" =>
        /\ \A k \in 1..Len(call.result.left) :
               call.result.left[k].stackAfter = call.result.left[k].stackBefore
        /\ \A k \in 1..Len(call.result.visited) :
               call.result.visited[k].attribute = 0 =>
                   Len(call.result.visited[k].stackAfter) =
                       1 + Len(call.result.visited[k].position)
                         + (IF k \in Transitions(call.result.visited) THEN 1 ELSE 0)


\* the start tags that matched the transition with the list of icons
ListTransitions(visited) ==
    {k \in Transitions(visited) :
        visited[k].stackAfter[Len(visited[k].stackAfter)] = "Icon"}

\* the start tag of the <icon> element that the element at position is, or is
\* inside of
Enclosing(visited, position) ==
    {k \in ListTransitions(visited) :
        /\ Len(visited[k].position) <= Len(position)
        /\ visited[k].position = SubSeq(position, 1, Len(visited[k].position))}

\* C33: each start tag that matches the transition with a list appends one
\* default-constructed element to the list, a transition without a list
\* appends nothing, and every assign or append step invoked between that start
\* tag and its end tag changes the element that start tag appended and leaves
\* the list as it is otherwise
C33_StepsUpdateTheAppendedElement ==
    call.op = "parseNested" =>
        LET visited == call.result.visited
            invoked == call.result.invoked
        IN /\ \A k \in Transitions(visited) :
                  visited[k].iconsAfter =
                      IF k \in ListTransitions(visited)
                      THEN Append(visited[k].iconsBefore, DefaultIcon)
                      ELSE visited[k].iconsBefore
           /\ \A i \in 1..Len(invoked) :
                  /\ Cardinality(Enclosing(visited, invoked[i].position)) = 1
                  /\ \A k \in Enclosing(visited, invoked[i].position) :
                         LET appended == Len(visited[k].iconsAfter)
                         IN /\ Len(invoked[i].iconsAfter) = Len(invoked[i].iconsBefore)
                            /\ appended \in 1..Len(invoked[i].iconsAfter)
                            /\ \A j \in 1..Len(invoked[i].iconsAfter) :
                                   \A field \in DOMAIN DefaultIcon :
                                       (j # appended \/ field # invoked[i].field) =>
                                           invoked[i].iconsAfter[j][field] =
                                               invoked[i].iconsBefore[j][field]
                            /\ invoked[i].converted =>
                                   /\ invoked[i].iconsAfter[appended][invoked[i].field] =
                                          invoked[i].after
                                   /\ invoked[i].after # invoked[i].before

\* two icons were parsed: the width of the first and the two topics of the
\* second are where they belong
C33_Witness ==
    /\ call.op = "parseNested"
    /\ call.succeeded
    /\ Len(call.result.icons) = 2
    /\ call.result.icons[1]["size.width"] = 48
    /\ call.result.icons[1].topics = <<>>
    /\ call.result.icons[2]["size.width"] = 0
    /\ call.result.icons[2].topics = <<<<120>>, <<120>>>>


---------------------------------------------------------------------------
(* The attributes of one start tag, one of them of a namespace without a   *)
(* table.                                                                  *)

\* the attributes of the document's element that are ignored: their prefix is
\* bound to a namespace without a table
IgnoredAttributes(document) ==
    {j \in 1..Len(document.attributes) :
        /\ document.attributes[j].prefix # ""
        /\ document.attributes[j].ns = OtherNamespace}

\* what parseStartElement recorded for attribute number i of the document's
\* element
AttributeVisits(result, i) ==
    {k \in 1..Len(result.visited) :
        result.visited[k].position = <<>> /\ result.visited[k].attribute = i}

\* C38 (as claimed): an unprefixed attribute that has a step in the current
\* state is parsed successfully, its step found and no error raised for it,
\* whether it comes before or after an ignored attribute of the same element
C38_IgnoredAttributeLeavesTheOthersAlone ==
    call.op = "parseNamespaces" =>
        \A i \in 1..Len(call.document.attributes) :
            (/\ call.document.attributes[i].prefix = ""
             /\ call.document.attributes[i].name = "id"
             /\ IgnoredAttributes(call.document) # {}) =>
                \A k \in AttributeVisits(call.result, i) :
                    /\ call.result.visited[k].kind = "GenericParser"
                    /\ call.result.visited[k].errorAfter = call.result.visited[k].errorBefore


---------------------------------------------------------------------------
(* http::Message::parse, byte by byte: the loop over the header lines.  A  *)
(* line is the bytes QIODevice::readLine returns before the line end,      *)
(* which every use but line[0] and indexOf trims away.                     *)

MaxHeaderLines == 3    \* lines after the status line

\* the bytes QByteArray::trimmed removes: \t, \n, \v, \f, \r and the space
isSpace(byte) == byte \in {9, 10, 11, 12, 13, 32}

\* QByteArray::trimmed
trimmed(bytes) ==
    LET kept == {i \in 1..Len(bytes) : ~isSpace(bytes[i])}
    IN IF kept = {} THEN <<>>
       ELSE SubSeq(bytes, CHOOSE i \in kept : \A j \in kept : i <= j,
                   CHOOSE i \in kept : \A j \in kept : i >= j)

\* QByteArray::indexOf(byte), counted from 0; -1 if there is none
indexOf(bytes, byte) ==
    IF \A i \in 1..Len(bytes) : bytes[i] # byte THEN -1
    ELSE (CHOOSE i \in 1..Len(bytes) :
              bytes[i] = byte /\ \A j \in 1..(i - 1) : bytes[j] # byte) - 1

\* the body of the loop of Message::parse for a line that is not blank:
\* m_headers afterwards
parseHeaderLine(headers, line) ==
    IF line[1] = 32
    THEN IF headers = <<>> THEN headers
         ELSE [headers EXCEPT ![Len(headers)].value = @ \o trimmed(line)]
    ELSE IF indexOf(line, 58) > 0
    THEN Append(headers, [name |-> trimmed(SubSeq(line, 1, indexOf(line, 58))),
                          value |-> trimmed(SubSeq(line, indexOf(line, 58) + 2,
                                                   Len(line)))])
    ELSE headers

\* the loop of Message::parse over the lines after a valid status line, which
\* ends at the first blank line: m_headers, and for every line that was read
\* m_headers before and after it
parseHeaders(lines) ==
    LET F[i \in 0..Len(lines)] ==
            IF i = 0 THEN [headers |-> <<>>, read |-> <<>>, atEnd |-> FALSE]
            ELSE IF F[i - 1].atEnd THEN F[i - 1]
            ELSE IF trimmed(lines[i]) = <<>> THEN [F[i - 1] EXCEPT !.atEnd = TRUE]
            ELSE [headers |-> parseHeaderLine(F[i - 1].headers, lines[i]),
                  read |-> Append(F[i - 1].read,
                                  [line |-> lines[i], before |-> F[i - 1].headers,
                                   after |-> parseHeaderLine(F[i - 1].headers, lines[i])]),
                  atEnd |-> FALSE]
    IN F[Len(lines)]

\* "a:v", " w", "\tw", "\tb:w" and the blank line
HeaderLineBytes ==
    {<<97, 58, 118>>, <<32, 119>>, <<9, 119>>, <<9, 98, 58, 119>>, <<>>}

ParseHeaders(lines) ==
    /\ call' = [op |-> "parseHeaders", lines |-> lines, result |-> parseHeaders(lines)]
    /\ UNCHANGED httpVars
    /\ UNCHANGED upnpVars

\* the headers of one message are parsed in a behaviour
NextHeaders ==
    /\ call = NoCall
    /\ \E lines \in NonEmptySeqsUpTo(HeaderLineBytes, MaxHeaderLines) : ParseHeaders(lines)

SpecHeaders == InitSsdp /\ [][NextHeaders]_vars

\* C34 (as claimed): a header line that begins with a space or with a tab and
\* follows a header is a continuation: its trimmed content is appended to the
\* value of the last header, no header is added and the line is not dropped
C34_SpaceOrTabContinuesTheHeader ==
    call.op = "parseHeaders" =>
        \A i \in 1..Len(call.result.read) :
            LET step == call.result.read[i]
            IN (step.line[1] \in {9, 32} /\ step.before # <<>>) =>
                   step.after = [step.before EXCEPT
                                     ![Len(step.before)].value = @ \o trimmed(step.line)]


---------------------------------------------------------------------------
(* The placeholders of the M-SEARCH queries the ticks send.                *)

Placeholders ==
    {s_ssdpKeyMulticastGroup, s_ssdpKeyUdpPort, s_ssdpKeyMinimumDelay,
     s_ssdpKeyMaximumDelay, s_ssdpKeyServiceType}

\* the tokens of a payload
TokensOf(text) ==
    Range(text.status)
        \cup UNION {Range(text.headers[i].value) \cup {text.headers[i].name} :
                       i \in 1..Len(text.headers)}

\* the value of the header HOST of a payload
HostOf(text) ==
    LET i == CHOOSE k \in 1..Len(text.headers) : text.headers[k].name = "HOST"
    IN text.headers[i].value

\* C35: every M-SEARCH datagram a tick sends from a socket has the group of
\* the family of the socket's address in HOST where the stored query has the
\* placeholder, and has no placeholder left; sending leaves the stored queries
\* as they are, with the placeholder of the group in them
C35_GroupIsSubstitutedPerSocket ==
    /\ [](call.op = "onTimeout" =>
             \A address \in DOMAIN sent :
                 \A i \in 1..Len(sent[address]) :
                     /\ sent[address][i].data.status[1] = "M-SEARCH"
                     /\ HostOf(sent[address][i].data) =
                            <<IF protocol(address) = "IPv4"
                              THEN "239.255.255.250" ELSE "ff02::c",
                              ":", "1900">>
                     /\ TokensOf(sent[address][i].data) \cap Placeholders = {}
                     /\ HostOf(m_queries[i]) = <<s_ssdpKeyMulticastGroup, ":", "1900">>)
    /\ [][call'.op = "onTimeout" => m_queries' = m_queries]_vars

\* a tick sent a query from a socket of each family
C35_Witness ==
    /\ call.op = "onTimeout"
    /\ \E a, b \in DOMAIN sent :
           /\ protocol(a) = "IPv4" /\ protocol(b) = "IPv6"
           /\ sent[a] # <<>> /\ sent[b] # <<>>
           /\ HostOf(sent[a][1].data) # HostOf(sent[b][1].data)


---------------------------------------------------------------------------
(* MDNS::Question: the type and the class field a constructor writes, and  *)
(* what the accessors read from them.                                      *)

MaxLabels == 3         \* labels of the name of a question that is built

\* a, b and ab
QuestionLabels == {<<97>>, <<98>>, <<97, 98>>}

\* the labels joined with dots
Dotted(labels) ==
    LET F[i \in 1..Len(labels)] ==
            IF i = 1 THEN labels[1] ELSE F[i - 1] \o <<46>> \o labels[i]
    IN F[Len(labels)]

\* (networkClass & 0x7fU) | (flush ? 0x80U : 0x00U)
Question_flags(networkClass, flush) ==
    (networkClass % 128) + (IF flush THEN 128 ELSE 0)

\* Question::Question(QByteArray name, Message::Type type,
\* Message::NetworkClass networkClass, bool flush): data()
Question_new(name, type, networkClass, flush) ==
    makeByteArray(split(name, 46))
        \o <<type \div 256, type % 256,
             Question_flags(networkClass, flush) \div 256,
             Question_flags(networkClass, flush) % 256>>

\* u16(fieldsOffset() + FlagsOffset)
Question_u16Flags(data, offset) == Field_u16(data, Plus(fieldsOffset(data, offset), 2))

\* Question::networkClass: u16(fieldsOffset() + FlagsOffset) & 0x7ff
Question_networkClass(data, offset) ==
    IF Question_u16Flags(data, offset) = OutOfBounds THEN OutOfBounds
    ELSE Question_u16Flags(data, offset) % 2048

\* Question::flush: u16(fieldsOffset() + FlagsOffset) & 0x8000
Question_flush(data, offset) ==
    IF Question_u16Flags(data, offset) = OutOfBounds THEN FALSE
    ELSE (Question_u16Flags(data, offset) \div 32768) % 2 = 1

BuildQuestion(name, type, networkClass, flush) ==
    /\ call' = [op |-> "Question", name |-> name, type |-> type,
                networkClass |-> networkClass, flush |-> flush,
                data |-> Question_new(name, type, networkClass, flush),
                readType |-> Entry_type(Question_new(name, type, networkClass, flush), 0),
                readClass |-> Question_networkClass(
                                  Question_new(name, type, networkClass, flush), 0),
                readFlush |-> Question_flush(
                                  Question_new(name, type, networkClass, flush), 0)]
    /\ UNCHANGED received
    /\ UNCHANGED codecVars
    /\ UNCHANGED upnpVars

\* one question is built in a behaviour
NextQuestions ==
    /\ call = NoCall
    /\ \E labels \in NonEmptySeqsUpTo(QuestionLabels, MaxLabels), type \in BuiltTypes,
          flush \in BOOLEAN :
           BuildQuestion(Dotted(labels), type, NetworkClassIN, flush)

SpecQuestions == InitMdns /\ [][NextQuestions]_vars

\* C36 (as claimed): the flush flag of a question is bit 15 of its 16-bit
\* class field and the class the other 15 bits, so a question built with the
\* class IN and flush = f is read back with networkClass = IN and flush = f
C36_FlushIsTheTopBitOfTheClass ==
    call.op = "Question" =>
        /\ Question_u16Flags(call.data, 0) =
               (IF call.flush THEN 32768 ELSE 0) + call.networkClass
        /\ call.readClass = call.networkClass
        /\ call.readFlush = call.flush


---------------------------------------------------------------------------
(* Message::question, answer, authority, additional and response with any  *)
(* index, call by call.  What is followed is which call is made next and   *)
(* whether an entry of the message or an empty entry is returned; the      *)
(* offsets of the entries are those of Message_question.                   *)

MaxIndex == 2          \* the indexes are -MaxIndex..MaxIndex
MaxCount == 1          \* records a header announces for a section
MaxFrames == 2         \* calls of one accessor that are counted

Sections == {"question", "answer", "authority", "additional"}

\* the headers the accessors are called on
CountedHeaders ==
    {<<0, 0, 0, 0, 0, questions, 0, answers, 0, authorities, 0, additionals>> :
        questions \in 0..MaxCount, answers \in 0..MaxCount,
        authorities \in 0..MaxCount, additionals \in 0..MaxCount}

\* questionCount, answerCount, authorityCount, additionalCount, responseCount
Message_count(data, section) ==
    CASE section = "question" -> Message_questionCount(data)
      [] section = "answer" -> Message_answerCount(data)
      [] section = "authority" -> Entry_u16(data, AuthorityCountOffset)
      [] section = "additional" -> Entry_u16(data, AdditionalCountOffset)
      [] OTHER -> Message_responseCount(data)

\* an accessor has been called and has not returned
Accessing == call.op \in Sections \cup {"response"} /\ call.outcome = "running"

\* Message::question(i), answer(i), authority(i), additional(i) or response(i)
\* is called
Message_entry(section, i) ==
    /\ ~Accessing
    /\ ~Decoding
    /\ received # <<>>
    /\ call' = [op |-> section, outcome |-> "running", outOfBounds |-> FALSE,
                result |-> <<>>, index |-> i, callee |-> section, i |-> i, frames |-> 0]
    /\ UNCHANGED received
    /\ UNCHANGED codecVars
    /\ UNCHANGED upnpVars

\* the call record after the body of question, answer, authority or additional
\* for c.i: an index of 0 and one below the count return an entry of the
\* message (the calls made for them have indexes from 0 on and from the count
\* down), a negative one calls the accessor again with the count added
AfterEntry(c, count) ==
    IF c.i = 0 THEN [c EXCEPT !.outcome = "value", !.result = <<"entry">>]
    ELSE IF c.i < 0
    THEN [c EXCEPT !.i = count + c.i,
                   !.frames = IF @ < MaxFrames THEN @ + 1 ELSE @]
    ELSE IF c.i < count THEN [c EXCEPT !.outcome = "value", !.result = <<"entry">>]
    ELSE [c EXCEPT !.outcome = "value", !.result = <<"empty">>]

\* the call record after the body of Message::response for c.i
AfterResponse(c, data) ==
    IF c.i < 0
    THEN [c EXCEPT !.i = Message_responseCount(data) - 1,
                   !.frames = IF @ < MaxFrames THEN @ + 1 ELSE @]
    ELSE IF c.i < Message_answerCount(data) THEN [c EXCEPT !.callee = "answer"]
    ELSE IF c.i - Message_answerCount(data) < Message_count(data, "authority")
    THEN [c EXCEPT !.callee = "authority", !.i = @ - Message_answerCount(data)]
    ELSE IF c.i - Message_answerCount(data) - Message_count(data, "authority")
                < Message_count(data, "additional")
    THEN [c EXCEPT !.callee = "additional",
                   !.i = @ - Message_answerCount(data) - Message_count(data, "authority")]
    ELSE [c EXCEPT !.outcome = "value", !.result = <<"empty">>]

\* the accessor that is running executes its body
Message_entryStep ==
    /\ Accessing
    /\ call' = IF call.callee = "response" THEN AfterResponse(call, received)
               ELSE AfterEntry(call, Message_count(received, call.callee))
    /\ UNCHANGED received
    /\ UNCHANGED codecVars
    /\ UNCHANGED upnpVars

NextEntries ==
    \/ \E data \in CountedHeaders : ~Accessing /\ ReceiveMessage(data)
    \/ \E section \in Sections \cup {"response"}, i \in -MaxIndex..MaxIndex :
           Message_entry(section, i)
    \/ Message_entryStep

SpecEntries == InitMdns /\ [][NextEntries]_vars

\* an accessor that is running goes on
SpecEntriesFair == SpecEntries /\ WF_vars(Message_entryStep)

\* whether index i designates a record of a section with count records:
\* from the first on when it is not negative, from the last back when it is
Designates(i, count) == (i >= 0 /\ i < count) \/ (i < 0 /\ count + i >= 0)

\* C39 (as claimed): question(i), answer(i), authority(i), additional(i) and
\* response(i) return for every index and every message, a negative index on
\* a section without records included, and return an empty entry when the
\* index designates no record
C39_AccessorsReturnForEveryIndex ==
    /\ Accessing ~> (call.op \in Sections \cup {"response"} /\ call.outcome = "value")
    /\ []((call.op \in Sections \cup {"response"} /\ call.outcome = "value"
              /\ ~Designates(call.index, Message_count(received, call.op)))
             => call.result = <<"empty">>)


---------------------------------------------------------------------------
(* deviceFound of a device whose details are loaded.                       *)

\* the deviceFound signals of the last handler that come from a loader
FoundBy(loader) ==
    {i \in 1..Len(emitted) :
        /\ emitted[i].signal = "deviceFound"
        /\ "loader" \in DOMAIN emitted[i]
        /\ emitted[i].loader = loader}

\* C37: a device parsed from a fetched description and given to a
\* DetailLoader is reported by deviceFound at most once, however many GETs
\* the loader issued and in whatever order they finish, fail or are aborted
C37_DeviceFoundAtMostOncePerDevice ==
    \A loader \in 1..Len(loaders) :
        /\ loaders[loader].finished <= 1
        /\ Cardinality(FoundBy(loader)) <= 1
        /\ loaders[loader].finished = 0 => FoundBy(loader) = {}

\* a loader of two GETs reported its device after one of them delivered its
\* body and the other failed or was aborted
C37_Witness ==
    \E loader \in 1..Len(loaders) :
        /\ loaders[loader].finished = 1
        /\ Len(loaders[loader].m_pendingReplies) = 2
        /\ \E i, j \in 1..2 :
               /\ replies[loaders[loader].m_pendingReplies[i]].state = "ok"
               /\ replies[loaders[loader].m_pendingReplies[j]].state \in {"error", "aborted"}


---------------------------------------------------------------------------
(* What Resolver::m_pendingReplies holds.                                  *)

\* the replies the resolver keeps in m_pendingReplies
Tracked == {m_pendingReplies[i] : i \in 1..Len(m_pendingReplies)}

\* C40 (as claimed): m_pendingReplies holds only replies that have not
\* finished, a reply leaving the list when it completes; once a loader has
\* reported its device none of the loader's replies is in the list, so that
\* Resolver::abortPendingReplies calls abort() on running replies only
C40_OnlyRunningRepliesAreTracked ==
    /\ \A reply \in Tracked : replies[reply].state = "running"
    /\ \A loader \in 1..Len(loaders) :
           loaders[loader].finished > 0 =>
               \A i \in 1..Len(loaders[loader].m_pendingReplies) :
                   loaders[loader].m_pendingReplies[i] \notin Tracked

=============================================================================
